---- MODULE Spec2Model ----
(***************************************************************************)
(* Model of the fuzzylogic core: Domain, Set and Rule of                   *)
(* src/src/fuzzylogic/classes.py, the combinators the Set operators use    *)
(* (combinators.py), inv() of functions.py and cog() of defuzz.py.         *)
(*                                                                         *)
(* Numbers.  Membership values, sample points and crisp results are exact  *)
(* numbers p/q where p and q are polynomials with integer coefficients in  *)
(* the symbol eps, the constant epsilon = 1e-10 of combinators.product.    *)
(* A polynomial is the sequence of its coefficients, lowest power first,   *)
(* without trailing zeros (<<>> is 0).  Every coefficient the model builds *)
(* is far below 1e10 in magnitude, so the sign of a polynomial at          *)
(* eps = 1e-10 is the sign of its lowest non-zero coefficient.             *)
(***************************************************************************)
EXTENDS Integers, Sequences, FiniteSets, TLC

\* ------------------------------------------------------------------ numbers
Abs(n) == IF n < 0 THEN -n ELSE n

MaxI(a, b) == IF a >= b THEN a ELSE b

MinI(a, b) == IF a <= b THEN a ELSE b

RECURSIVE GCD(_, _)
GCD(a, b) == IF b = 0 THEN a ELSE GCD(b, a % b)

RECURSIVE PTrim(_)
PTrim(p) ==
    IF p = <<>> THEN <<>>
    ELSE IF p[Len(p)] = 0 THEN PTrim(SubSeq(p, 1, Len(p) - 1)) ELSE p

PCoef(p, i) == IF i >= 1 /\ i <= Len(p) THEN p[i] ELSE 0

PAdd(p, q) == PTrim([i \in 1..MaxI(Len(p), Len(q)) |-> PCoef(p, i) + PCoef(q, i)])

PNeg(p) == [i \in 1..Len(p) |-> 0 - p[i]]

RECURSIVE ConvSum(_, _, _, _)
ConvSum(p, q, k, i) ==
    IF i > Len(p) THEN 0
    ELSE p[i] * PCoef(q, k - i + 1) + ConvSum(p, q, k, i + 1)

PMul(p, q) ==
    IF p = <<>> \/ q = <<>> THEN <<>>
    ELSE PTrim([k \in 1..(Len(p) + Len(q) - 1) |-> ConvSum(p, q, k, 1)])

RECURSIVE PLow(_)
PLow(p) == IF p = <<>> THEN 0 ELSE IF p[1] # 0 THEN 0 ELSE 1 + PLow(Tail(p))

PSign(p) ==
    IF p = <<>> THEN 0
    ELSE IF p[PLow(p) + 1] > 0 THEN 1 ELSE -1

RECURSIVE PContent(_)
PContent(p) == IF p = <<>> THEN 0 ELSE GCD(Abs(Head(p)), PContent(Tail(p)))

\* The canonical form of p/q (q # 0): common powers of eps and the common
\* integer factor removed, the denominator positive.
\* p1/q1 with the integer factor g divided out of both.
NormBy(p1, q1, g) ==
    << [i \in 1..Len(p1) |-> p1[i] \div g], [i \in 1..Len(q1) |-> q1[i] \div g] >>

\* p/q with the first sh coefficients, all 0, dropped from both.
NormShifted(p, q, sh) ==
    NormBy(SubSeq(p, sh + 1, Len(p)), SubSeq(q, sh + 1, Len(q)),
           GCD(PContent(p), PContent(q)) * PSign(q))

Norm(p, q) ==
    IF p = <<>> THEN << <<>>, <<1>> >>
    ELSE NormShifted(p, q, MinI(PLow(p), PLow(q)))

\* The rational n/d (d # 0) in canonical form.
Rat(n, d) ==
    IF n = 0 THEN << <<>>, <<1>> >>
    ELSE LET g == GCD(Abs(n), Abs(d)) * (IF d < 0 THEN -1 ELSE 1)
         IN  << <<n \div g>>, <<d \div g>> >>

\* a is free of eps: a plain rational, with numerator Num(a) over Den(a).
IsRat(a) == Len(a[1]) <= 1 /\ Len(a[2]) = 1

Num(a) == IF a[1] = <<>> THEN 0 ELSE a[1][1]

Den(a) == a[2][1]

Zero == Rat(0, 1)

One == Rat(1, 1)

NAdd(a, b) ==
    IF IsRat(a) /\ IsRat(b) THEN Rat(Num(a) * Den(b) + Num(b) * Den(a), Den(a) * Den(b))
    ELSE Norm(PAdd(PMul(a[1], b[2]), PMul(b[1], a[2])), PMul(a[2], b[2]))

NSub(a, b) ==
    IF IsRat(a) /\ IsRat(b) THEN Rat(Num(a) * Den(b) - Num(b) * Den(a), Den(a) * Den(b))
    ELSE Norm(PAdd(PMul(a[1], b[2]), PNeg(PMul(b[1], a[2]))), PMul(a[2], b[2]))

NMul(a, b) ==
    IF IsRat(a) /\ IsRat(b) THEN Rat(Num(a) * Num(b), Den(a) * Den(b))
    ELSE Norm(PMul(a[1], b[1]), PMul(a[2], b[2]))

NDiv(a, b) ==
    IF IsRat(a) /\ IsRat(b) THEN Rat(Num(a) * Den(b), Den(a) * Num(b))
    ELSE Norm(PMul(a[1], b[2]), PMul(a[2], b[1]))

NSign(a) == PSign(a[1])

\* The sign of a - b.
NCmp(a, b) ==
    IF IsRat(a) /\ IsRat(b)
    THEN LET x == Num(a) * Den(b) - Num(b) * Den(a)
         IN  IF x > 0 THEN 1 ELSE IF x < 0 THEN -1 ELSE 0
    ELSE NSign(NSub(a, b))

NEq(a, b) == NCmp(a, b) = 0

NLess(a, b) == NCmp(a, b) < 0

NLeq(a, b) == NCmp(a, b) <= 0

NMin(a, b) == IF NLeq(a, b) THEN a ELSE b

NMax(a, b) == IF NLeq(b, a) THEN a ELSE b

RECURSIVE NSum(_)
NSum(s) == IF s = <<>> THEN Zero ELSE NAdd(Head(s), NSum(Tail(s)))

RECURSIVE NPow(_, _)
NPow(a, n) == IF n = 0 THEN One ELSE NMul(a, NPow(a, n - 1))


\* The integer part of a non-negative rational, Python's int() on it.
NInt(a) == Num(a) \div Den(a)

\* The least integer >= a, for a rational a.
NCeil(a) == 0 - ((0 - Num(a)) \div Den(a))

\* epsilon of combinators.product: the symbol eps itself.
epsilon == << <<0, 1>>, <<1>> >>

\* ------------------------------------------------------------------ bounds
NumDomains == 2

MaxSets == 3

MaxRegSets == 2

MaxCount == 2

MaxRules == 1

MaxConditions == 2

MaxAntecedents == 2

\* The crisp input values rules are evaluated at.
CrispValues == {Rat(0, 1), Rat(1, 1)}

DomIds == 1..NumDomains

SetIds == 1..MaxSets

\* Attribute names used in registrations; "1x" is not an identifier.
AttrNames == {"a", "b", "1x"}

isidentifier(name) == name \in {"a", "b", "d", "e"}

\* ----------------------------------------------------- membership functions
\* A membership function is the closure its constructor returns: the
\* constructor's name, its numeric parameters and the functions it closes
\* over.  Call(f, x) below is the call f(x).
constant(c) == <<"constant", <<c>>, <<>> >>

R(low, high) == <<"R", <<low, high>>, <<>> >>

\* SingletonSet._singleton_fn(c, no_m, c_m)
singleton_fn(c, no_m, c_m) == <<"singleton", <<c, no_m, c_m>>, <<>> >>

S(low, high) == <<"S", <<low, high>>, <<>> >>

inv(g) == <<"inv", <<>>, <<g>> >>

MIN(funcs) == <<"MIN", <<>>, funcs>>

MAX(funcs) == <<"MAX", <<>>, funcs>>

product(funcs) == <<"product", <<>>, funcs>>

bounded_sum(funcs) == <<"bounded_sum", <<>>, funcs>>

simple_disjoint_sum(funcs) == <<"simple_disjoint_sum", <<>>, funcs>>

\* The function f of Set.__pow__: pow(self.func(x), power).
pow(func, power) == <<"pow", <<Rat(power, 1)>>, <<func>> >>

\* What a constructor call yields when one of its assertions fails: no function.
AssertionError == <<"AssertionError", <<>>, <<>> >>

linear(m, b) == <<"linear", <<m, b>>, <<>> >>

\* bounded_linear(low, high, c_m=.., no_m=.., inverse=..): the closure holds
\* c_m and no_m after the swap `if inverse`.
bounded_linear(low, high, c_m, no_m, inverse) ==
    IF ~NLess(low, high) \/ ~NLess(no_m, c_m) THEN AssertionError
    ELSE <<"bounded_linear",
           <<low, high, IF inverse THEN no_m ELSE c_m, IF inverse THEN c_m ELSE no_m>>,
           <<>> >>

rectangular(low, high, c_m, no_m) ==
    IF ~NLess(low, high) THEN AssertionError
    ELSE <<"rectangular", <<low, high, c_m, no_m>>, <<>> >>

\* triangular(low, high, c=.., c_m=.., no_m=..), c = <<>> for None: the
\* closure holds c and the two slopes, both built with no_m=0.
triangular(low, high, c, c_m, no_m) ==
    LET peak == IF c = <<>> THEN NDiv(NAdd(low, high), Rat(2, 1)) ELSE c[1]
    IN  IF ~NLess(low, high) \/ ~NLess(no_m, c_m) THEN AssertionError
        ELSE IF ~(NLess(low, peak) /\ NLess(peak, high)) THEN AssertionError
        ELSE IF bounded_linear(low, peak, c_m, Zero, FALSE) = AssertionError
        THEN AssertionError
        ELSE <<"triangular", <<peak>>,
               <<bounded_linear(low, peak, c_m, Zero, FALSE),
                 inv(bounded_linear(peak, high, c_m, Zero, FALSE))>> >>

\* trapezoid(low, c_low, c_high, high, c_m=.., no_m=..)
trapezoid(low, c_low, c_high, high, c_m, no_m) ==
    IF ~(NLess(low, c_low) /\ NLeq(c_low, c_high) /\ NLess(c_high, high))
    THEN AssertionError
    ELSE IF ~(NLeq(Zero, no_m) /\ NLess(no_m, c_m) /\ NLeq(c_m, One))
    THEN AssertionError
    ELSE <<"trapezoid", <<low, c_low, c_high, high, c_m, no_m>>,
           <<bounded_linear(low, c_low, c_m, no_m, FALSE),
             bounded_linear(c_high, high, c_m, no_m, TRUE)>> >>

sigmoid(L, k, x0) ==
    IF ~(NLess(Zero, L) /\ NLeq(L, One)) THEN AssertionError
    ELSE <<"sigmoid", <<L, k, x0>>, <<>> >>

normalize(height, func) ==
    IF ~(NLess(Zero, height) /\ NLeq(height, One)) THEN AssertionError
    ELSE <<"normalize", <<height>>, <<func>> >>

lukasiewicz_AND(funcs) == <<"lukasiewicz_AND", <<>>, funcs>>

lukasiewicz_OR(funcs) == <<"lukasiewicz_OR", <<>>, funcs>>

einstein_product(funcs) == <<"einstein_product", <<>>, funcs>>

einstein_sum(funcs) == <<"einstein_sum", <<>>, funcs>>

hamacher_product(funcs) == <<"hamacher_product", <<>>, funcs>>

hamacher_sum(funcs) == <<"hamacher_sum", <<>>, funcs>>

\* gamma_op(g)(*funcs)
gamma_op(g, funcs) ==
    IF ~(NLeq(Zero, g) /\ NLeq(g, One)) THEN AssertionError
    ELSE <<"gamma_op", <<g>>, funcs>>

\* The largest and the smallest element of a non-empty set of numbers.
NMaxOf(M) == CHOOSE m \in M : \A y \in M : NLeq(y, m)

NMinOf(M) == CHOOSE m \in M : \A y \in M : NLeq(m, y)

Range(v) == {v[i] : i \in 1..Len(v)}

bounded_sum_op(x, y) == NSub(NAdd(x, y), NMul(x, y))

\* The binary functions handed to reduce: numpy's multiply in product, op in
\* bounded_sum.
Apply(op, x, y) ==
    CASE op = "multiply" -> NMul(x, y)
      [] op = "op" -> bounded_sum_op(x, y)
      [] op = "lukasiewicz_AND" -> NMin(One, NAdd(x, y))
      [] op = "lukasiewicz_OR" -> NMax(Zero, NSub(NAdd(x, y), One))
      [] op = "einstein_product" ->
            NDiv(NMul(x, y), NSub(Rat(2, 1), NSub(NAdd(x, y), NMul(x, y))))
      [] op = "einstein_sum" -> NDiv(NAdd(x, y), NAdd(One, NMul(x, y)))
      [] op = "hamacher_product" ->
            IF ~NEq(x, Zero) /\ ~NEq(y, Zero)
            THEN NDiv(NMul(x, y), NSub(NAdd(x, y), NMul(x, y)))
            ELSE Zero
      [] op = "hamacher_sum" ->
            IF ~NEq(x, One) \/ ~NEq(y, One)
            THEN NDiv(NSub(NAdd(x, y), NMul(Rat(2, 1), NMul(x, y))), NSub(One, NMul(x, y)))
            ELSE One

\* functools.reduce(op, values) without an initial value (values non-empty).
RECURSIVE reduce(_, _)
reduce(op, v) ==
    IF Len(v) = 1 THEN v[1]
    ELSE Apply(op, reduce(op, SubSeq(v, 1, Len(v) - 1)), v[Len(v)])

constant_f(c, x) == c

\* lambda x: c_m if x == c else no_m
singleton_f(c, no_m, c_m, x) == IF NEq(x, c) THEN c_m ELSE no_m

R_f(low, high, x) ==
    IF NLess(x, low) THEN Zero
    ELSE IF NLeq(x, high) THEN NDiv(NSub(x, low), NSub(high, low))
    ELSE One

\* A slope that rises like R.
S_f_rising(low, high, x) ==
    IF NLess(x, low) THEN Zero
    ELSE IF NLeq(x, high) THEN NDiv(NSub(x, low), NSub(high, low))
    ELSE One

S_f(low, high, x) ==
    IF NLeq(x, low) THEN One
    ELSE IF NLess(x, high)
         THEN NSub(NDiv(high, NSub(high, low)), NDiv(x, NSub(high, low)))
    ELSE Zero

inv_f(v) == NSub(One, v)

\* The inner functions F of the combinators, on the operands' values v at
\* the point evaluated.
MIN_F(v) == NMinOf(Range(v))

MAX_F(v) == IF v = <<>> THEN One ELSE NMaxOf(Range(v))

\* The values product reduces: max(f(z), epsilon) for f in funcs.
product_values(v) == [i \in 1..Len(v) |-> NMax(v[i], epsilon)]

\* F of the combinators that return reduce(op, values): product over
\* numpy's multiply, the others over their own op.
reduce_F(tag, v) ==
    reduce(IF tag = "product" THEN "multiply" ELSE IF tag = "bounded_sum" THEN "op" ELSE tag,
           IF tag = "product" THEN product_values(v) ELSE v)

simple_disjoint_sum_F(v) ==
    LET M == Range(v)
        rest(x) == IF M \ {x} = {} THEN {NSub(One, x)}
                   ELSE {NSub(One, y) : y \in M \ {x}}
    IN  NMaxOf({NMinOf({x} \cup rest(x)) : x \in M})

\* pow(v, power) for an integer power; a negative power of 0 raises
\* ZeroDivisionError, see Raises.
pow_f(v, power) ==
    IF NLess(power, Zero) THEN NDiv(One, NPow(v, 0 - Num(power)))
    ELSE NPow(v, NInt(power))

\* A line that is not clipped to [0, 1].
linear_f_unclipped(m, b, x) == NAdd(NMul(m, x), b)

\* linear.f from `if y <= 0` on.
linear_clip(y) == IF NLeq(y, Zero) THEN Zero ELSE IF NLeq(One, y) THEN One ELSE y

linear_f(m, b, x) == linear_clip(NAdd(NMul(m, x), b))

\* A slope that starts from 0 instead of no_m.
bounded_linear_f_unshifted(low, high, c_m, no_m, x) ==
    LET gradient == NDiv(NSub(c_m, no_m), NSub(high, low))
        y == NMul(gradient, NSub(x, low))
    IN  IF NLess(y, Zero) THEN Zero
        ELSE IF NLess(One, y) THEN One
        ELSE y

\* The function bounded_linear returns: g_0 for a gradient of 0, else f.
\* (g_inf, for an infinite gradient, needs a float overflow; numbers are
\* exact here.)
bounded_linear_clip(y) == IF NLess(y, Zero) THEN Zero ELSE IF NLess(One, y) THEN One ELSE y

bounded_linear_g(gradient, low, c_m, no_m, x) ==
    IF NEq(gradient, Zero) THEN NDiv(NAdd(c_m, no_m), Rat(2, 1))
    ELSE bounded_linear_clip(NAdd(NMul(gradient, NSub(x, low)), no_m))

bounded_linear_f(low, high, c_m, no_m, x) ==
    bounded_linear_g(NDiv(NSub(c_m, no_m), NSub(high, low)), low, c_m, no_m, x)

rectangular_f(low, high, c_m, no_m, x) ==
    IF NLess(x, low) \/ NLess(high, x) THEN no_m ELSE c_m

\* f of triangular, on the values of left_slope and right_slope at x.
triangular_f(c, left_slope, right_slope, x) ==
    IF NLeq(x, c) THEN left_slope ELSE right_slope

\* f of trapezoid, on the values of left_slope and right_slope at x.
trapezoid_f(low, c_low, c_high, high, c_m, no_m, left_slope, right_slope, x) ==
    IF NLess(x, low) \/ NLess(high, x) THEN no_m
    ELSE IF NLess(x, c_low) THEN left_slope
    ELSE IF NLess(c_high, x) THEN right_slope
    ELSE c_m

\* math.exp to three decimals, at the multiples of 1/2 from -3 to 3.
exp(t) ==
    LET thousandths == <<50, 82, 135, 223, 368, 607, 1000,
                         1649, 2718, 4482, 7389, 12182, 20086>>
    IN  Rat(thousandths[NInt(NAdd(NMul(Rat(2, 1), t), Rat(7, 1)))], 1000)

\* f of sigmoid for finite k and x (k * x is no NaN, exp does not overflow).
sigmoid_f(L, k, x0, x) ==
    LET o == exp(NMul(NSub(Zero, k), NSub(x, x0)))
    IN  NDiv(L, NAdd(One, o))

normalize_f(height, v) == NDiv(v, height)

\* op of gamma_op(g) for g = 0 and g = 1, the weights with whole exponents.
gamma_op_op(g, x, y) ==
    NMul(NPow(NMul(x, y), NInt(NSub(One, g))),
         NPow(NMul(NSub(One, x), NSub(One, y)), NInt(g)))

RECURSIVE gamma_op_F(_, _)
gamma_op_F(g, v) ==
    IF Len(v) = 1 THEN v[1]
    ELSE gamma_op_op(g, gamma_op_F(g, SubSeq(v, 1, Len(v) - 1)), v[Len(v)])

\* The combinators whose F is reduce(op, ...) over their own op.
ReduceCombinators ==
    {"lukasiewicz_AND", "lukasiewicz_OR", "einstein_product", "einstein_sum",
     "hamacher_product", "hamacher_sum"}

\* f(x)
RECURSIVE Call(_, _)
Call(f, x) ==
    LET tag == f[1]
        p   == f[2]
        v   == [i \in 1..Len(f[3]) |-> Call(f[3][i], x)]
    IN  CASE tag = "constant" -> constant_f(p[1], x)
          [] tag = "singleton" -> singleton_f(p[1], p[2], p[3], x)
          [] tag = "R" -> R_f(p[1], p[2], x)
          [] tag = "S" -> S_f(p[1], p[2], x)
          [] tag = "inv" -> inv_f(v[1])
          [] tag = "MIN" -> MIN_F(v)
          [] tag = "MAX" -> MAX_F(v)
          [] tag = "simple_disjoint_sum" -> simple_disjoint_sum_F(v)
          [] tag = "pow" -> pow_f(v[1], p[1])
          [] tag = "linear" -> linear_f(p[1], p[2], x)
          [] tag = "bounded_linear" -> bounded_linear_f(p[1], p[2], p[3], p[4], x)
          [] tag = "rectangular" -> rectangular_f(p[1], p[2], p[3], p[4], x)
          [] tag = "triangular" -> triangular_f(p[1], v[1], v[2], x)
          [] tag = "trapezoid" ->
                trapezoid_f(p[1], p[2], p[3], p[4], p[5], p[6], v[1], v[2], x)
          [] tag = "sigmoid" -> sigmoid_f(p[1], p[2], p[3], x)
          [] tag = "normalize" -> normalize_f(p[1], v[1])
          [] tag = "gamma_op" -> gamma_op_F(p[1], v)
          [] tag \in {"product", "bounded_sum"} \cup ReduceCombinators -> reduce_F(tag, v)

\* f(x) raises: a negative power of 0 (ZeroDivisionError), here or in a
\* function f calls.
RECURSIVE Raises(_, _)
Raises(f, x) ==
    \/ \E i \in 1..Len(f[3]) : Raises(f[3][i], x)
    \/ /\ f[1] = "pow"
       /\ NLess(f[2][1], Zero)
       /\ NEq(Call(f[3][1], x), Zero)

\* ------------------------------------------------------------------- state
VARIABLES
    doms,      \* Domain objects: _name, _low, _high, _res, _sets (a dict name -> Set)
    sets,      \* Set objects: func, domain (0 = None), name ("" = None) and the two caches
    rules,     \* Rule objects: conditions, an insertion-ordered sequence of <<frozenset, then_set>>
    computed,  \* per Set, how often array() sampled and center_of_gravity() computed (saturating)
    last       \* the last call: the operation and how it ended

vars == <<doms, sets, rules, computed, last>>

NoSet ==
    [alive |-> FALSE, func |-> constant(Zero), domain |-> 0, name |-> "",
     cached_array |-> <<>>, center_of_gravity |-> <<>>]

Alive == {s \in SetIds : sets[s].alive}

\* Set.__init__: a fresh object with both caches None (<<>>).
SetInit(func, name, domain) ==
    [alive |-> TRUE, func |-> func, domain |-> domain, name |-> name,
     cached_array |-> <<>>, center_of_gravity |-> <<>>]

\* The identity of the next object created.
NewId(ss) == CHOOSE i \in SetIds : ~ss[i].alive /\ \A j \in 1..(i - 1) : ss[j].alive

\* Fewer than n Set objects exist (n <= MaxSets bounds the objects a run creates).
HasRoom(ss, n) == Cardinality({i \in SetIds : ss[i].alive}) < n

\* Domain.__init__ after its assertions passed.
DomainInit(name, low, high, res) ==
    [name |-> name, low |-> low, high |-> high, res |-> res, sets |-> <<>>]

DomainInitOk(name, low, high, res) ==
    /\ NLess(low, high)
    /\ NLess(Zero, res)
    /\ isidentifier(name)

\* Domain.range: np.arange(low, high + res, int(res)) for an integral
\* resolution, np.linspace(low, high, int((high - low) / res) + 1) otherwise.
arange(start, stop, step) ==
    [k \in 1..NCeil(NDiv(NSub(stop, start), step)) |->
        NAdd(start, NMul(Rat(k - 1, 1), step))]

linspace(start, stop, n) ==
    IF n = 1 THEN <<start>>
    ELSE [k \in 1..n |->
            NAdd(start, NMul(Rat(k - 1, 1), NDiv(NSub(stop, start), Rat(n - 1, 1))))]

range(d) ==
    IF NEq(Rat(NInt(d.res), 1), d.res)
    THEN arange(d.low, NAdd(d.high, d.res), Rat(NInt(d.res), 1))
    ELSE linspace(d.low, d.high, NInt(NDiv(NSub(d.high, d.low), d.res)) + 1)

\* np.fromiter((self.func(x) for x in self.domain.range), float)
SampleAt(func, r) == [i \in 1..Len(r) |-> Call(func, r[i])]

Sample(func, d) == SampleAt(func, range(d))

Inc(n) == MinI(n + 1, MaxCount)

\* Sampling func over the range of d raises: func raises at one of the points.
SampleRaises(func, d) == \E i \in 1..Len(range(d)) : Raises(func, range(d)[i])

\* array() on Set s raises while it samples; nothing is cached then.
ArrayRaises(ss, dd, s) ==
    ss[s].cached_array = <<>> /\ SampleRaises(ss[s].func, dd[ss[s].domain])

\* Set.array() on Set s with a domain, when sampling does not raise: the
\* Sets after the call.
ArrayFill(ss, dd, s) ==
    IF ss[s].cached_array = <<>>
    THEN [ss EXCEPT ![s].cached_array = Sample(ss[s].func, dd[ss[s].domain])]
    ELSE ss

\* Set.array() on Set s with a domain: how it ends and the Sets after the
\* call; nothing is cached when sampling raises.
ArrayCall(ss, dd, s) ==
    IF ArrayRaises(ss, dd, s) THEN [status |-> "raise", sets |-> ss]
    ELSE [status |-> "ok", sets |-> ArrayFill(ss, dd, s)]

ArrayCount(cc, ss, s) ==
    IF ss[s].cached_array = <<>> THEN [cc EXCEPT ![s].array = Inc(@)] ELSE cc

\* The record of a call: what was called, with which arguments (where a
\* property needs them), whether it returned or raised, and the value
\* returned: bool for a comparison, val for a crisp result (<<>> is None).
Result(op, status) ==
    [op |-> op, status |-> status, bool |-> FALSE, val |-> <<>>, args |-> <<>>]

\* domain.range
DomainRange(d) ==
    /\ last' = [Result("range", "ok") EXCEPT !.val = range(doms[d]), !.args = <<d>>]
    /\ UNCHANGED <<doms, sets, rules, computed>>

\* ---------------------------------------------------------- Domain and Set
\* Domain.__setattr__ from the dict store on: _sets[name] = value, the two
\* back-reference assignments, and value.array() to force the cache.
Bind(ss, d, name, s) == [ss EXCEPT ![s].domain = d, ![s].name = name]

Store(dd, d, name, s) == [dd EXCEPT ![d].sets = (name :> s) @@ @]

\* The registration after value.array() ended as a on the bound Sets ss1.
RegisterOutcome(a, ss1, cc, dd1, s) ==
    [status |-> a.status, doms |-> dd1, sets |-> a.sets,
     computed |-> ArrayCount(cc, ss1, s)]

Register(ss, cc, dd, d, name, s) ==
    RegisterOutcome(ArrayCall(Bind(ss, d, name, s), Store(dd, d, name, s), s),
                    Bind(ss, d, name, s), cc, Store(dd, d, name, s), s)

\* Set(func, name=..., domain=...)
SetNew(n, F, names) ==
    /\ HasRoom(sets, n)
    /\ \E f \in F, d \in {0} \cup DomIds, name \in names :
          /\ name # "" => d # 0
          /\ sets' = [sets EXCEPT ![NewId(sets)] = SetInit(f, name, d)]
          /\ last' = Result("Set", "ok")
    /\ UNCHANGED <<doms, rules, computed>>

\* SingletonSet(c, domain=...): Set.__init__ on _singleton_fn(c, 0, 1), then
\* c, no_m, c_m and domain stored and _cached_array reset to None.
SingletonSetNew(n, P) ==
    /\ HasRoom(sets, n)
    /\ \E c \in P, d \in {0} \cup DomIds :
          /\ sets' = [sets EXCEPT ![NewId(sets)] = SetInit(singleton_fn(c, Zero, One), "", d)]
          /\ last' = Result("SingletonSet", "ok")
    /\ UNCHANGED <<doms, rules, computed>>

\* Domain(name, low, high, res): a new Domain, or none when an assertion of
\* __init__ fails.
DomainNew(n, configs) ==
    /\ Len(doms) < n
    /\ \E c \in configs :
          IF DomainInitOk(c.name, c.low, c.high, c.res)
          THEN /\ doms' = Append(doms, DomainInit(c.name, c.low, c.high, c.res))
               /\ last' = Result("Domain", "ok")
          ELSE /\ doms' = doms
               /\ last' = Result("Domain", "raise")
    /\ UNCHANGED <<sets, rules, computed>>

\* domain.name = s for an existing Set s.  The names drawn are never slot
\* names of Domain.
DomainSetattr(d, names) ==
    \E name \in names, s \in Alive :
        \/ /\ ~isidentifier(name)
           /\ last' = Result("setattr", "raise")
           /\ UNCHANGED <<doms, sets, rules, computed>>
        \/ /\ isidentifier(name)
           /\ \E r \in {Register(sets, computed, doms, d, name, s)} :
                 /\ doms' = r.doms
                 /\ sets' = r.sets
                 /\ computed' = r.computed
                 /\ last' = Result("setattr", r.status)
           /\ UNCHANGED rules

\* domain.name = f for a bare membership function f, which __setattr__ wraps
\* in Set(f) before it registers it.
DomainSetattrFunc(d, n, F, names) ==
    \E name \in names, f \in F :
        \/ /\ ~isidentifier(name)
           /\ last' = Result("setattr", "raise")
           /\ UNCHANGED <<doms, sets, rules, computed>>
        \/ /\ isidentifier(name)
           /\ HasRoom(sets, n)
           /\ \E r \in {Register([sets EXCEPT ![NewId(sets)] = SetInit(f, "", 0)],
                                  computed, doms, d, name, NewId(sets))} :
                 /\ doms' = r.doms
                 /\ sets' = r.sets
                 /\ computed' = r.computed
                 /\ last' = Result("setattr", r.status)
           /\ UNCHANGED rules

\* del domain.name
DomainDelattr(d, names) ==
    \E name \in names :
        IF name \in DOMAIN doms[d].sets
        THEN /\ doms' = [doms EXCEPT ![d].sets =
                            [n \in (DOMAIN doms[d].sets) \ {name} |-> doms[d].sets[n]]]
             /\ last' = Result("delattr", "ok")
             /\ UNCHANGED <<sets, rules, computed>>
        ELSE /\ last' = Result("delattr", "raise")
             /\ UNCHANGED <<doms, sets, rules, computed>>

\* s.array()
SetArray(s) ==
    /\ sets[s].alive
    /\ IF sets[s].domain = 0
       THEN /\ last' = Result("array", "raise")
            /\ UNCHANGED <<sets, computed>>
       ELSE \E a \in {ArrayCall(sets, doms, s)} :
               /\ sets' = a.sets
               /\ computed' = ArrayCount(computed, sets, s)
               /\ last' = Result("array", a.status)
    /\ UNCHANGED <<doms, rules>>

\* Set.__call__(x) for a number x: self.func(x).  The domain's bounds are not
\* consulted.
Set__call__(ss, s, x) == [status |-> "ok", val |-> <<Call(ss[s].func, x)>>]

\* s(x)
SetCall(s, X) ==
    /\ sets[s].alive
    /\ \E x \in X :
          \E out \in {Set__call__(sets, s, x)} :
             last' = [Result("Set.__call__", out.status) EXCEPT
                         !.val = out.val, !.args = <<s, x>>]
    /\ UNCHANGED <<doms, sets, rules, computed>>

\* dict.values() as a set.
DictValues(m) == {m[k] : k \in DOMAIN m}

\* A Domain call without the bounds check.
Domain__call__unchecked(ss, dd, d, x) ==
    [status |-> "ok", val |-> [s \in DictValues(dd[d].sets) |-> Call(ss[s].func, x)]]

\* Domain.__call__(x): FuzzyWarning outside [low, high], else the dict
\* {self._sets[name]: s.func(x)}, keyed by the Set objects.
Domain__call__(ss, dd, d, x) ==
    IF ~(NLeq(dd[d].low, x) /\ NLeq(x, dd[d].high))
    THEN [status |-> "raise", val |-> <<>>]
    ELSE [status |-> "ok", val |-> [s \in DictValues(dd[d].sets) |-> Call(ss[s].func, x)]]

\* domain(x)
DomainCall(d, X) ==
    /\ \E x \in X :
          \E out \in {Domain__call__(sets, doms, d, x)} :
             last' = [Result("Domain.__call__", out.status) EXCEPT
                         !.val = out.val, !.args = <<d, x>>]
    /\ UNCHANGED <<doms, sets, rules, computed>>

\* np.average(a, weights=w) for one-dimensional a and w of the same length.
average(a, w) == NDiv(NSum([i \in 1..Len(a) |-> NMul(a[i], w[i])]), NSum(w))

\* Set.center_of_gravity() from `weights = self.array()` on, given the array
\* and the domain's range: the outcome, the value returned and the value
\* stored in _center_of_gravity (<<>>: nothing stored).
CenterOfGravity(weights, r) ==
    IF NEq(NSum(weights), Zero)
    THEN [status |-> "ok", val |-> Zero, store |-> <<>>]
    ELSE IF Len(r) # Len(weights)
    THEN [status |-> "raise", val |-> Zero, store |-> <<>>]
    ELSE [status |-> "ok", val |-> average(r, weights), store |-> <<average(r, weights)>>]

\* A store that also unbinds the Set.
CogStoreUnbinding(ss1, cc1, s, c) ==
    [status |-> c.status, val |-> c.val,
     sets |-> [ss1 EXCEPT ![s].center_of_gravity = c.store, ![s].domain = 0],
     computed |-> IF c.status = "ok" THEN [cc1 EXCEPT ![s].cog = Inc(@)] ELSE cc1]

CogStore(ss1, cc1, s, c) ==
    [status |-> c.status, val |-> c.val,
     sets |-> [ss1 EXCEPT ![s].center_of_gravity = c.store],
     computed |-> IF c.status = "ok" THEN [cc1 EXCEPT ![s].cog = Inc(@)] ELSE cc1]

CogCompute(ss1, cc1, dd, s) ==
    CogStore(ss1, cc1, s, CenterOfGravity(ss1[s].cached_array, range(dd[ss1[s].domain])))

\* s.center_of_gravity() as a step on (sets, computed).  A SingletonSet, the
\* only Set whose func is a _singleton_fn, returns its c.
CogCall(ss, cc, dd, s) ==
    IF ss[s].func[1] = "singleton"
    THEN [status |-> "ok", val |-> ss[s].func[2][1], sets |-> ss, computed |-> cc]
    ELSE IF ss[s].center_of_gravity # <<>>
    THEN [status |-> "ok", val |-> ss[s].center_of_gravity[1], sets |-> ss, computed |-> cc]
    ELSE IF ss[s].domain = 0
    THEN [status |-> "raise", val |-> Zero, sets |-> ss, computed |-> cc]
    ELSE CogCompute(ArrayFill(ss, dd, s), ArrayCount(cc, ss, s), dd, s)

\* s.center_of_gravity()
SetCenterOfGravity(s) ==
    /\ sets[s].alive
    /\ \E c \in {CogCall(sets, computed, doms, s)} :
          /\ sets' = c.sets
          /\ computed' = c.computed
          /\ last' = Result("center_of_gravity", c.status)
    /\ UNCHANGED <<doms, rules>>

\* Set.normalized(): the Set's array is sampled (and cached), its maximum is
\* the height normalize() asserts on, and the result is a new Set on the same
\* domain.
\* Set(f, domain=self.domain) for f = normalize(...), or its AssertionError,
\* on the Sets ss1 that self.array() left.
normalized_new(f, ss1, ss, cc, s) ==
    IF f = AssertionError
    THEN [status |-> "raise", val |-> <<>>, sets |-> ss1,
          computed |-> ArrayCount(cc, ss, s)]
    ELSE [status |-> "ok", val |-> <<NewId(ss1)>>,
          sets |-> [ss1 EXCEPT ![NewId(ss1)] = SetInit(f, "", ss[s].domain)],
          computed |-> ArrayCount(cc, ss, s)]

\* normalize(max(self.array()), self.func) on the Sets ss1 that self.array()
\* left.
normalized_set(ss1, ss, cc, s) ==
    normalized_new(normalize(NMaxOf(Range(ss1[s].cached_array)), ss[s].func),
                   ss1, ss, cc, s)

normalized(ss, cc, dd, s) ==
    IF ss[s].domain = 0
    THEN [status |-> "raise", val |-> <<>>, sets |-> ss, computed |-> cc]
    ELSE normalized_set(ArrayFill(ss, dd, s), ss, cc, s)

\* s.normalized()
SetNormalized(n) ==
    /\ HasRoom(sets, n)
    /\ \E s \in Alive :
          \E r \in {normalized(sets, computed, doms, s)} :
             /\ sets' = r.sets
             /\ computed' = r.computed
             /\ last' = [Result("normalized", r.status) EXCEPT
                            !.val = r.val, !.args = <<s>>]
    /\ UNCHANGED <<doms, rules>>

\* ------------------------------------------------------------ Set operators
\* np.array_equal(a, b): the same shape and the same elements.
array_equal(a, b) == Len(a) = Len(b) /\ \A i \in 1..Len(a) : NEq(a[i], b[i])

\* What s.array() returns for a Set with a domain, in state (ss, dd).
ArrayOf(ss, dd, s) ==
    IF ss[s].cached_array = <<>> THEN Sample(ss[s].func, dd[ss[s].domain])
    ELSE ss[s].cached_array

\* A comparison of Domains by object identity.
DomainIs(ss, dd, d1, d2) == d1 = d2

\* Domain.__eq__: name, bounds, resolution and the _sets dicts are equal; dict
\* values are compared by identity first and then by Set.__eq__, which for
\* registered Sets (they all have a domain and a sampled array) is
\* np.array_equal of their arrays.
Domain__eq__(ss, dd, d1, d2) ==
    /\ dd[d1].name = dd[d2].name
    /\ NEq(dd[d1].low, dd[d2].low)
    /\ NEq(dd[d1].high, dd[d2].high)
    /\ NEq(dd[d1].res, dd[d2].res)
    /\ DOMAIN dd[d1].sets = DOMAIN dd[d2].sets
    /\ \A n \in DOMAIN dd[d1].sets :
          \/ dd[d1].sets[n] = dd[d2].sets[n]
          \/ array_equal(ArrayOf(ss, dd, dd[d1].sets[n]), ArrayOf(ss, dd, dd[d2].sets[n]))

\* self.domain == other.domain on two domain fields, either of which may be None.
DomainFieldsEqual(ss, dd, d1, d2) ==
    IF d1 = 0 \/ d2 = 0 THEN d1 = d2 ELSE Domain__eq__(ss, dd, d1, d2)

\* A derived Set that loses the operand's domain.
DerivedUnbound(func, domain) == SetInit(func, "", 0)

\* Set(func, domain=self.domain): the derived Set an operator returns.
Derived(func, domain) == SetInit(func, "", domain)

UnaryOps == {"invert", "neg"}

BinaryOps == {"and", "or", "mul", "add", "xor"}

Combine(op, f, g) ==
    CASE op = "and" -> MIN(<<f, g>>)
      [] op = "or"  -> MAX(<<f, g>>)
      [] op = "mul" -> product(<<f, g>>)
      [] op = "add" -> bounded_sum(<<f, g>>)
      [] op = "xor" -> simple_disjoint_sum(<<f, g>>)

\* The assertions of a binary operator hold: __and__ also asserts that both
\* domains are set, the others only compare the two domain fields.
BinaryAccepts(ss, dd, op, s, t) ==
    /\ op = "and" => ss[s].domain # 0 /\ ss[t].domain # 0
    /\ DomainFieldsEqual(ss, dd, ss[s].domain, ss[t].domain)

\* s op t: the outcome, the Set returned (0: none) and the Sets afterwards.
Binary(ss, dd, op, s, t) ==
    IF BinaryAccepts(ss, dd, op, s, t)
    THEN [status |-> "ok", ret |-> NewId(ss),
          sets |-> [ss EXCEPT ![NewId(ss)] =
                       Derived(Combine(op, ss[s].func, ss[t].func), ss[s].domain)]]
    ELSE [status |-> "raise", ret |-> 0, sets |-> ss]

\* ~s and -s
Unary(ss, s) ==
    IF ss[s].domain # 0
    THEN [status |-> "ok", ret |-> NewId(ss),
          sets |-> [ss EXCEPT ![NewId(ss)] = Derived(inv(ss[s].func), ss[s].domain)]]
    ELSE [status |-> "raise", ret |-> 0, sets |-> ss]

\* s ** power
Power(ss, s, power) ==
    [status |-> "ok", ret |-> NewId(ss),
     sets |-> [ss EXCEPT ![NewId(ss)] = Derived(pow(ss[s].func, power), ss[s].domain)]]

Powers == {2}

SetUnary(n) ==
    /\ HasRoom(sets, n)
    /\ \E op \in UnaryOps, s \in Alive :
          \E r \in {Unary(sets, s)} :
             /\ sets' = r.sets
             /\ last' = [Result(op, r.status) EXCEPT !.args = <<s>>]
    /\ UNCHANGED <<doms, rules, computed>>

SetBinary(n) ==
    /\ HasRoom(sets, n)
    /\ \E op \in BinaryOps, s \in Alive, t \in Alive :
          \E r \in {Binary(sets, doms, op, s, t)} :
             /\ sets' = r.sets
             /\ last' = [Result(op, r.status) EXCEPT !.args = <<s, t>>]
    /\ UNCHANGED <<doms, rules, computed>>

SetPow(n) ==
    /\ HasRoom(sets, n)
    /\ \E s \in Alive, power \in Powers :
          \E r \in {Power(sets, s, power)} :
             /\ sets' = r.sets
             /\ last' = [Result("pow", r.status) EXCEPT !.args = <<s>>]
    /\ UNCHANGED <<doms, rules, computed>>

\* ---------------------------------------------------------- Set comparisons
\* all(np.less_equal(a, b)) and its siblings: elementwise, an array of
\* length 1 broadcast against the other; other length mismatches raise.
Broadcasts(a, b) == Len(a) = Len(b) \/ Len(a) = 1 \/ Len(b) = 1

At(a, i) == IF Len(a) = 1 THEN a[1] ELSE a[i]

\* np.less_equal, np.less, np.greater_equal and np.greater on two elements.
Rel(rel, x, y) ==
    CASE rel = "less_equal" -> NLeq(x, y)
      [] rel = "less" -> NLess(x, y)
      [] rel = "greater_equal" -> NLeq(y, x)
      [] rel = "greater" -> NLess(y, x)

AllCmp(rel, a, b) == \A i \in 1..MaxI(Len(a), Len(b)) : Rel(rel, At(a, i), At(b, i))

CompareOps == {"eq", "le", "lt", "ge", "gt"}

\* The state after self.array() and other.array().
SecondArray(ss1, cc1, dd, t) ==
    [sets |-> ArrayFill(ss1, dd, t), computed |-> ArrayCount(cc1, ss1, t)]

BothArrays(ss, cc, dd, s, t) ==
    SecondArray(ArrayFill(ss, dd, s), ArrayCount(cc, ss, s), dd, t)

Compared(status, bool, b) ==
    [status |-> status, bool |-> bool, sets |-> b.sets, computed |-> b.computed]

EqArrays(b, s, t) ==
    Compared("ok", array_equal(b.sets[s].cached_array, b.sets[t].cached_array), b)

\* Set.__eq__
Set__eq__(ss, cc, dd, s, t) ==
    IF ss[s].domain = 0 \/ ss[t].domain = 0
    THEN Compared("raise", FALSE, [sets |-> ss, computed |-> cc])
    ELSE EqArrays(BothArrays(ss, cc, dd, s, t), s, t)

CmpArrays(rel, b, x, y) ==
    IF Broadcasts(x, y) THEN Compared("ok", AllCmp(rel, x, y), b)
    ELSE Compared("raise", FALSE, b)

OrderArrays(rel, b, s, t) ==
    CmpArrays(rel, b, b.sets[s].cached_array, b.sets[t].cached_array)

\* Set.__le__, __lt__, __ge__, __gt__ with their elementwise relation.
Ordering(rel, ss, cc, dd, s, t) ==
    IF \/ ss[s].domain = 0
       \/ ss[t].domain = 0
       \/ ~Domain__eq__(ss, dd, ss[s].domain, ss[t].domain)
    THEN Compared("raise", FALSE, [sets |-> ss, computed |-> cc])
    ELSE OrderArrays(rel, BothArrays(ss, cc, dd, s, t), s, t)

Set__le__(ss, cc, dd, s, t) == Ordering("less_equal", ss, cc, dd, s, t)

Set__lt__(ss, cc, dd, s, t) == Ordering("less", ss, cc, dd, s, t)

Set__ge__(ss, cc, dd, s, t) == Ordering("greater_equal", ss, cc, dd, s, t)

Set__gt__(ss, cc, dd, s, t) == Ordering("greater", ss, cc, dd, s, t)

Compare(op, ss, cc, dd, s, t) ==
    CASE op = "eq" -> Set__eq__(ss, cc, dd, s, t)
      [] op = "le" -> Set__le__(ss, cc, dd, s, t)
      [] op = "lt" -> Set__lt__(ss, cc, dd, s, t)
      [] op = "ge" -> Set__ge__(ss, cc, dd, s, t)
      [] op = "gt" -> Set__gt__(ss, cc, dd, s, t)

SetCompare ==
    /\ \E op \in CompareOps, s \in Alive, t \in Alive :
          \E r \in {Compare(op, sets, computed, doms, s, t)} :
             /\ sets' = r.sets
             /\ computed' = r.computed
             /\ last' = [Result(op, r.status) EXCEPT !.bool = r.bool]
    /\ UNCHANGED <<doms, rules>>

\* --------------------------------------------------------------------- Rule
\* frozenset(if_sets) for a tuple of Sets: Set.__hash__ is id(self), so the
\* elements are told apart by identity.
frozenset(if_sets) == Range(if_sets)

\* A store that keeps the value a key already has.
DictSetDefault(conditions, key, then_set) ==
    IF \E i \in 1..Len(conditions) : conditions[i][1] = key
    THEN conditions
    ELSE Append(conditions, <<key, then_set>>)

\* conditions[key] = then_set on the insertion-ordered dict conditions, a
\* sequence of <<key, value>>: an existing key keeps its place.
DictSet(conditions, key, then_set) ==
    IF \E i \in 1..Len(conditions) : conditions[i][1] = key
    THEN [i \in 1..Len(conditions) |->
            IF conditions[i][1] = key THEN <<key, then_set>> ELSE conditions[i]]
    ELSE Append(conditions, <<key, then_set>>)

\* Rule.__init__ on one dict argument, given as its items in order.
RECURSIVE RuleInit(_, _)
RuleInit(conditions, items) ==
    IF items = <<>> THEN conditions
    ELSE RuleInit(DictSet(conditions, frozenset(items[1][1]), items[1][2]), Tail(items))

\* The assertions Rule.__call__ makes on one condition: the consequent's
\* domain equals the target domain, every antecedent has a domain, and
\* values has an entry for it (a dict keyed by Domain identity).
ConditionAccepted(ss, dd, cond, target_domain, values) ==
    /\ DomainFieldsEqual(ss, dd, ss[cond[2]].domain, target_domain)
    /\ \A s \in cond[1] : ss[s].domain # 0 /\ ss[s].domain \in DOMAIN values

\* A firing strength that takes the largest degree.
firing_strength_max(ss, if_sets, values) ==
    IF if_sets = {} THEN Zero
    ELSE NMaxOf({Call(ss[s].func, values[ss[s].domain]) : s \in if_sets})

\* min(degrees, default=0) with degrees the antecedents' s(values[s.domain]).
firing_strength(ss, if_sets, values) ==
    IF if_sets = {} THEN Zero
    ELSE NMinOf({Call(ss[s].func, values[ss[s].domain]) : s \in if_sets})

\* target_weights: (then_set, firing_strength) of the conditions that fire.
RECURSIVE TargetWeights(_, _, _)
TargetWeights(ss, conditions, values) ==
    IF conditions = <<>> THEN <<>>
    ELSE IF NLess(Zero, firing_strength(ss, conditions[1][1], values))
    THEN << <<conditions[1][2], firing_strength(ss, conditions[1][1], values)>> >>
            \o TargetWeights(ss, Tail(conditions), values)
    ELSE TargetWeights(ss, Tail(conditions), values)

Raised(ss, cc) == [status |-> "raise", val |-> <<>>, sets |-> ss, computed |-> cc]

Returned(val, ss, cc) == [status |-> "ok", val |-> val, sets |-> ss, computed |-> cc]

\* defuzz.cog: sum(then_set.center_of_gravity() * weight ...), the calls made
\* in order with their effect on the Sets' caches, then the division.
RECURSIVE SumWeightedCogs(_, _, _, _, _)
SumWeightedCogsStep(c, dd, target_weights, acc) ==
    IF c.status = "raise" THEN Raised(c.sets, c.computed)
    ELSE SumWeightedCogs(c.sets, c.computed, dd, Tail(target_weights),
                         NAdd(acc, NMul(c.val, target_weights[1][2])))

SumWeightedCogs(ss, cc, dd, target_weights, acc) ==
    IF target_weights = <<>> THEN Returned(<<acc>>, ss, cc)
    ELSE SumWeightedCogsStep(CogCall(ss, cc, dd, target_weights[1][1]),
                             dd, target_weights, acc)

CogDivide(sum, sum_weights) ==
    IF sum.status = "raise" THEN sum
    ELSE Returned(<<NDiv(sum.val[1], sum_weights)>>, sum.sets, sum.computed)

\* A plain average: the number of weights in place of their sum.
CountOfWeights(target_weights) == Rat(Len(target_weights), 1)

SumOfWeights(target_weights) ==
    NSum([i \in 1..Len(target_weights) |-> target_weights[i][2]])

cog(ss, cc, dd, target_weights) ==
    IF NEq(SumOfWeights(target_weights), Zero) THEN Raised(ss, cc)
    ELSE CogDivide(SumWeightedCogs(ss, cc, dd, target_weights, Zero),
                   SumOfWeights(target_weights))

\* |a|
NAbs(a) == IF NSign(a) < 0 THEN NSub(Zero, a) ELSE a

\* Rule.__call__: the spacing handed to bisector for n sample points.
step(d, n) ==
    IF n > 1 THEN NDiv(NSub(d.high, d.low), Rat(n - 1, 1)) ELSE NSub(d.high, d.low)

\* An aggregation by the smallest clipped consequent.
aggregated_membership_min(ss, target_weights, x) ==
    NMinOf({NMin(target_weights[i][2], Call(ss[target_weights[i][1]].func, x)) :
               i \in 1..Len(target_weights)})

\* aggregated_membership(x): max(min(weight, then_set(x)) ...) over target_weights.
aggregated_membership(ss, target_weights, x) ==
    NMaxOf({NMin(target_weights[i][2], Call(ss[target_weights[i][1]].func, x)) :
               i \in 1..Len(target_weights)})

\* [aggregated_membership(x) for x in points]
Aggregated(ss, target_weights, points) ==
    [i \in 1..Len(points) |-> aggregated_membership(ss, target_weights, points[i])]

\* defuzz._get_max_points: tol = 1e-6
tol == Rat(1, 1000000)

RECURSIVE get_max_points(_, _, _)
get_max_points(points, ys, max_value) ==
    IF points = <<>> THEN <<>>
    ELSE (IF NLess(NAbs(NSub(ys[1], max_value)), tol) THEN <<points[1]>> ELSE <<>>)
            \o get_max_points(Tail(points), Tail(ys), max_value)

max_points(points, ys) == get_max_points(points, ys, NMaxOf(Range(ys)))

\* sum(m) / len(m) if m else None, min(m, default=None) and
\* max(m, default=None); <<>> is None.
MeanOrNone(m) == IF m = <<>> THEN <<>> ELSE <<NDiv(NSum(m), Rat(Len(m), 1))>>

MinOrNone(m) == IF m = <<>> THEN <<>> ELSE <<NMinOf(Range(m))>>

MaxOrNone(m) == IF m = <<>> THEN <<>> ELSE <<NMaxOf(Range(m))>>

\* defuzz.mom, som, lom on the points and their aggregated memberships ys.
mom(points, ys) == MeanOrNone(max_points(points, ys))

som(points, ys) == MinOrNone(max_points(points, ys))

lom(points, ys) == MaxOrNone(max_points(points, ys))

\* A scan that stops only where the accumulated area exceeds half the total.
RECURSIVE bisector_scan_strict(_, _, _, _, _)
bisector_scan_strict(points, ys, h, cumulative, half_area) ==
    IF Len(points) = 1 \/ NLess(half_area, NAdd(cumulative, NMul(ys[1], h)))
    THEN points[1]
    ELSE bisector_scan_strict(Tail(points), Tail(ys), h,
                              NAdd(cumulative, NMul(ys[1], h)), half_area)

\* defuzz.bisector's loop: cumulative += aggregated_membership(x) * step,
\* return x once cumulative >= half_area, points[-1] if the loop runs out.
RECURSIVE bisector_scan(_, _, _, _, _)
bisector_scan(points, ys, h, cumulative, half_area) ==
    IF Len(points) = 1 \/ NLeq(half_area, NAdd(cumulative, NMul(ys[1], h)))
    THEN points[1]
    ELSE bisector_scan(Tail(points), Tail(ys), h,
                       NAdd(cumulative, NMul(ys[1], h)), half_area)

total_area(ys, h) == NSum([i \in 1..Len(ys) |-> NMul(ys[i], h)])

bisector(points, ys, h) ==
    <<bisector_scan(points, ys, h, Zero, NDiv(total_area(ys, h), Rat(2, 1)))>>

\* The defuzzification methods of fuzzylogic.defuzz.
Methods == {"cog", "bisector", "mom", "som", "lom"}

\* Rule.__call__ from `match method` on.
MatchMethod(method, points, ys, h) ==
    CASE method = "bisector" -> bisector(points, ys, h)
      [] method = "mom" -> mom(points, ys)
      [] method = "som" -> som(points, ys)
      [] method = "lom" -> lom(points, ys)

\* Rule.__call__ from `points = list(target_domain.range)` on.
DefuzzifyOn(ss, cc, d, target_weights, method, points) ==
    IF method \notin Methods THEN Raised(ss, cc)
    ELSE Returned(MatchMethod(method, points, Aggregated(ss, target_weights, points),
                              step(d, Len(points))),
                  ss, cc)

\* Rule.__call__ from `if not target_weights` on.
Defuzzify(ss, cc, dd, target_domain, target_weights, method) ==
    IF target_weights = <<>> THEN Returned(<<>>, ss, cc)
    ELSE IF method = "cog" THEN cog(ss, cc, dd, target_weights)
    ELSE DefuzzifyOn(ss, cc, dd[target_domain], target_weights, method,
                     range(dd[target_domain]))

\* Rule.__call__(values, method)
Rule__call__(ss, cc, dd, conditions, values, method) ==
    IF \/ DOMAIN values = {}
       \/ conditions = <<>>
       \/ ss[conditions[1][2]].domain = 0
       \/ \E i \in 1..Len(conditions) :
             ~ConditionAccepted(ss, dd, conditions[i], ss[conditions[1][2]].domain, values)
    THEN Raised(ss, cc)
    ELSE Defuzzify(ss, cc, dd, ss[conditions[1][2]].domain,
                   TargetWeights(ss, conditions, values), method)

\* Tuples of at most n elements of the set E.
Tuples(E, n) == UNION {[1..k -> E] : k \in 0..n}

\* Rule({if_sets: then_set, ...}): a dict of at most MaxConditions items, its
\* keys tuples of at most MaxAntecedents existing Sets.
RuleNew ==
    /\ Len(rules) < MaxRules
    /\ \E items \in Tuples(Tuples(Alive, MaxAntecedents) \X Alive, MaxConditions) :
          /\ \A i, j \in 1..Len(items) : items[i][1] = items[j][1] => i = j
          /\ rules' = Append(rules, [conditions |-> RuleInit(<<>>, items)])
    /\ last' = Result("Rule", "ok")
    /\ UNCHANGED <<doms, sets, computed>>

\* A dict key as Rule.__init__ takes it: a single Set <<"Set", s>> becomes
\* the tuple (s,), a tuple of Sets <<"tuple", t>> stays.
AsTuple(if_sets) == IF if_sets[1] = "Set" THEN <<if_sets[2]>> ELSE if_sets[2]

\* conditions |= other, and {**conditions, **other}: other's items stored in
\* order, their keys frozensets already.
RECURSIVE DictUpdate(_, _)
DictUpdate(conditions, other) ==
    IF other = <<>> THEN conditions
    ELSE DictUpdate(DictSet(conditions, other[1][1], other[1][2]), Tail(other))

\* Rule.__init__(*args): each arg a Rule <<"Rule", r>> or a dict
\* <<"dict", items>>, taken in order.
RECURSIVE Rule__init__(_, _, _)
Rule__init__(rr, conditions, args) ==
    IF args = <<>> THEN conditions
    ELSE IF args[1][1] = "Rule"
    THEN Rule__init__(rr, DictUpdate(conditions, rr[args[1][2]].conditions), Tail(args))
    ELSE Rule__init__(rr,
                      RuleInit(conditions,
                               [i \in 1..Len(args[1][2]) |->
                                   <<AsTuple(args[1][2][i][1]), args[1][2][i][2]>>]),
                      Tail(args))

\* The keys a dict argument can have: a Set, or a tuple of at most
\* MaxAntecedents Sets.
DictKeys ==
    {<<"Set", s>> : s \in Alive} \cup {<<"tuple", t>> : t \in Tuples(Alive, MaxAntecedents)}

\* The arguments of Rule(...): existing Rules and dicts of at most k items.
RuleArgs(k) ==
    {<<"Rule", r>> : r \in 1..Len(rules)}
        \cup {<<"dict", items>> : items \in
                 {i \in Tuples(DictKeys \X Alive, k) :
                     \A x, y \in 1..Len(i) : i[x][1] = i[y][1] => x = y}}

\* Rule(*args) with at most m arguments, dicts of at most k items, while
\* fewer than n Rule objects exist.
RuleConstruct(n, m, k) ==
    /\ Len(rules) < n
    /\ \E args \in Tuples(RuleArgs(k), m) :
          /\ rules' = Append(rules, [conditions |-> Rule__init__(rules, <<>>, args)])
          /\ last' = [Result("Rule.__init__", "ok") EXCEPT
                         !.val = <<Len(rules) + 1>>, !.args = <<args>>]
    /\ UNCHANGED <<doms, sets, computed>>

\* A union in which the left operand's consequents win.
Rule__add__reversed(c1, c2) == DictUpdate(<<>>, DictUpdate(c2, c1))

\* Rule.__add__, __or__ and __radd__ with a Rule: Rule({**self.conditions,
\* **other.conditions}), on the operands' conditions.
Rule__add__(c1, c2) == DictUpdate(<<>>, DictUpdate(c1, c2))

\* a + b and a | b: a new Rule object.
RuleUnion(n) ==
    /\ Len(rules) < n
    /\ \E a, b \in 1..Len(rules), op \in {"Rule.__add__", "Rule.__or__"} :
          /\ rules' = Append(rules, [conditions |->
                         Rule__add__(rules[a].conditions, rules[b].conditions)])
          /\ last' = [Result(op, "ok") EXCEPT !.val = <<Len(rules) + 1>>, !.args = <<a, b>>]
    /\ UNCHANGED <<doms, sets, computed>>

\* sum(L)'s accumulation from its second element on: acc = acc + r.
RECURSIVE SumRules(_, _, _)
SumRules(rr, acc, L) ==
    IF L = <<>> THEN acc
    ELSE SumRules(rr, Rule__add__(acc, rr[L[1]].conditions), Tail(L))

\* sum(L) for a list L of Rules: 0 for the empty list (no object, <<>>);
\* 0 + L[0] is L[0].__radd__(0), which returns L[0] itself; each further
\* element is added by __add__, and only the last sum is kept.
RuleSum(n, m) ==
    \E L \in Tuples(1..Len(rules), m) :
        /\ Len(L) > 1 => Len(rules) < n
        /\ rules' = IF Len(L) > 1
                    THEN Append(rules, [conditions |->
                             SumRules(rules, rules[L[1]].conditions, Tail(L))])
                    ELSE rules
        /\ last' = [Result("sum", "ok") EXCEPT
                       !.val = IF L = <<>> THEN <<>>
                               ELSE IF Len(L) = 1 THEN <<L[1]>> ELSE <<Len(rules) + 1>>,
                       !.args = <<L>>]
        /\ UNCHANGED <<doms, sets, computed>>

\* The dicts passed as values: crisp values for some of the Domains.
ValueDicts == UNION {[D -> CrispValues] : D \in SUBSET DomIds}

\* rule(values, method)
RuleCall(V, M) ==
    \E r \in 1..Len(rules), values \in V, method \in M :
       \E out \in {Rule__call__(sets, computed, doms, rules[r].conditions, values, method)} :
          /\ sets' = out.sets
          /\ computed' = out.computed
          /\ last' = [Result("Rule.__call__", out.status) EXCEPT
                         !.val = out.val, !.args = <<r, values, method>>]
          /\ UNCHANGED <<doms, rules>>

\* ---------------------------------------------------------- specifications
\* Domains as their constructor leaves them.
DomainConfigs ==
    {DomainInit("d", Zero, Rat(2, 1), One), DomainInit("e", Zero, One, One)}

\* The functions registrations are exercised with.
RegFuncs == {constant(Zero), R(Zero, Rat(2, 1))}

InitObjects ==
    /\ doms \in [DomIds -> {c \in DomainConfigs : DomainInitOk(c.name, c.low, c.high, c.res)}]
    /\ doms[1] = DomainInit("d", Zero, Rat(2, 1), One)
    /\ sets = [s \in SetIds |-> NoSet]
    /\ rules = <<>>
    /\ computed = [s \in SetIds |-> [array |-> 0, cog |-> 0]]
    /\ last = Result("init", "ok")

NextReg ==
    \/ SetNew(MaxRegSets, RegFuncs, {"", "a"})
    \/ \E d \in DomIds : DomainSetattr(d, AttrNames)
    \/ \E d \in DomIds : DomainSetattrFunc(d, MaxRegSets, RegFuncs, AttrNames)
    \/ \E d \in DomIds : DomainDelattr(d, AttrNames)
    \/ \E s \in SetIds : SetArray(s)

SpecReg == InitObjects /\ [][NextReg]_vars

NextCache ==
    \/ SetNew(MaxRegSets, RegFuncs, {"", "a"})
    \/ \E d \in DomIds : DomainSetattr(d, {"a", "1x"})
    \/ \E s \in SetIds : SetArray(s)
    \/ \E s \in SetIds : SetCenterOfGravity(s)

SpecCache == InitObjects /\ [][NextCache]_vars

\* The functions Set operators and comparisons are exercised with.
OpsFuncs == {constant(One), R(Zero, Rat(2, 1))}

CmpFuncs == {constant(Zero), constant(One), R(Zero, Rat(2, 1))}

NextOps ==
    \/ SetNew(MaxRegSets, OpsFuncs, {""})
    \/ \E d \in DomIds : DomainSetattrFunc(d, MaxRegSets, OpsFuncs, {"a", "1x"})
    \/ SetUnary(MaxSets)
    \/ SetBinary(MaxSets)
    \/ SetPow(MaxSets)

SpecOps == InitObjects /\ [][NextOps]_vars

NextCmp ==
    \/ SetNew(MaxRegSets, CmpFuncs, {""})
    \/ \E d \in DomIds : DomainSetattr(d, {"a", "1x"})
    \/ SetCompare

SpecCmp == InitObjects /\ [][NextCmp]_vars

\* The functions Rules are exercised with.
RuleFuncs == {R(Zero, Rat(2, 1)), S(Zero, Rat(2, 1))}

NextRule ==
    \/ SetNew(MaxRegSets, RuleFuncs, {""})
    \/ RuleNew
    \/ RuleCall(ValueDicts, {"cog"})

SpecRule == InitObjects /\ [][NextRule]_vars

\* A Set around each membership function of F a constructor accepted, not
\* bound to a Domain.
InitFunction(F) ==
    /\ doms = [d \in DomIds |-> DomainInit("d", Zero, Rat(2, 1), One)]
    /\ \E f \in F \ {AssertionError} :
          sets = [s \in SetIds |-> IF s = 1 THEN SetInit(f, "", 0) ELSE NoSet]
    /\ rules = <<>>
    /\ computed = [s \in SetIds |-> [array |-> 0, cog |-> 0]]
    /\ last = Result("init", "ok")

\* The points functions are called at.
Points ==
    {Rat(-1, 1), Zero, Rat(1, 2), One, Rat(3, 2), Rat(2, 1), Rat(3, 1)}

NextFunction == \E s \in SetIds : SetCall(s, Points)

Memberships == {Zero, Rat(1, 4), Rat(1, 2), One}

BoundedLinearFuncs ==
    {bounded_linear(low, high, c_m, no_m, FALSE) :
        low \in {Zero, One}, high \in {One, Rat(2, 1)},
        c_m \in Memberships, no_m \in Memberships}

SpecBoundedLinear == InitFunction(BoundedLinearFuncs) /\ [][NextFunction]_vars

\* Membership parameters c_m and no_m.
MembershipPairs == Memberships \X Memberships

ConstantFuncs == {constant(c) : c \in Memberships}

LinearFuncs ==
    {linear(m, b) : m \in {Rat(-1, 1), Rat(1, 2), Rat(2, 1)},
                    b \in {Rat(-1, 1), Zero, Rat(1, 2)}}

RectangularFuncs ==
    {rectangular(low, high, m[1], m[2]) :
        low \in {Zero, One}, high \in {One, Rat(2, 1)}, m \in MembershipPairs}

TriangularFuncs ==
    {triangular(low, Rat(2, 1), c, m[1], m[2]) :
        low \in {Rat(-1, 1), Zero},
        c \in {<<>>, <<Rat(1, 2)>>, <<Rat(3, 2)>>, <<Rat(2, 1)>>}, m \in MembershipPairs}

TrapezoidFuncs ==
    {trapezoid(Zero, c_low, c_high, Rat(2, 1), m[1], m[2]) :
        c_low \in {Rat(1, 2), One}, c_high \in {One, Rat(3, 2)}, m \in MembershipPairs}

SigmoidFuncs ==
    {sigmoid(L, k, Zero) : L \in Memberships, k \in {Rat(-1, 1), Zero, One}}

ShapeFuncs ==
    ConstantFuncs \cup LinearFuncs \cup RectangularFuncs \cup TriangularFuncs
        \cup TrapezoidFuncs \cup SigmoidFuncs

SpecShapes == InitFunction(ShapeFuncs) /\ [][NextFunction]_vars

SpecTriangular == InitFunction(TriangularFuncs) /\ [][NextFunction]_vars

OperandValues == {Zero, Rat(1, 2), One}

\* a ^ b on the functions of two Sets, and the combinator on three operands.
XorFuncs ==
    {Combine("xor", constant(x), constant(y)) : x \in OperandValues, y \in OperandValues}
        \cup {simple_disjoint_sum(<<constant(x), constant(y), constant(z)>>) :
                 x \in OperandValues, y \in OperandValues, z \in OperandValues}

SpecXor == InitFunction(XorFuncs) /\ [][NextFunction]_vars

\* Two operands with the values x and y.
TwoOperands(x, y) == <<constant(x), constant(y)>>

GammaFuncs ==
    {gamma_op(g, TwoOperands(x, y)) : g \in {Zero, One}, x \in Memberships, y \in Memberships}

SpecGamma == InitFunction(GammaFuncs) /\ [][NextFunction]_vars

AndVariants == {"product", "lukasiewicz_AND", "einstein_product", "hamacher_product"}

OrVariants == {"bounded_sum", "lukasiewicz_OR", "einstein_sum", "hamacher_sum"}

\* Every AND and OR variant on two operands; all of them are closures of
\* their name over the operands.
NormFuncs ==
    {<<name, <<>>, TwoOperands(x, y)>> :
        name \in AndVariants \cup OrVariants, x \in Memberships, y \in Memberships}

SpecNorms == InitFunction(NormFuncs) /\ [][NextFunction]_vars

NextNormalize ==
    \/ SetNew(MaxRegSets, RegFuncs, {""})
    \/ \E d \in DomIds : DomainSetattr(d, {"a"})
    \/ SetNormalized(MaxSets)

SpecNormalize == InitObjects /\ [][NextNormalize]_vars

\* The values Domains and Sets are called with: inside both Domains' bounds,
\* inside one Domain's only, and outside both.
CallValues == {Zero, Rat(2, 1), Rat(3, 1)}

NextCall ==
    \/ SetNew(MaxRegSets, RegFuncs, {""})
    \/ \E d \in DomIds : DomainSetattr(d, {"a", "b"})
    \/ \E d \in DomIds : DomainSetattrFunc(d, MaxRegSets, RegFuncs, {"a", "1x"})
    \/ \E d \in DomIds : DomainCall(d, CallValues)

SpecCall == InitObjects /\ [][NextCall]_vars

\* Crisp inputs inside every Domain's bounds and outside them.
EvalValueDicts == [DomIds -> {One, Rat(3, 1)}]

\* The Set objects a run of SpecEval creates.
MaxEvalSets == 1

NextEval ==
    \/ SetNew(MaxEvalSets, RuleFuncs, {""})
    \/ RuleNew
    \/ RuleCall(EvalValueDicts, Methods)
    \/ \E s \in SetIds : SetCall(s, CallValues)

SpecEval == InitObjects /\ [][NextEval]_vars

\* Domain(name, low, high, res) over bounds and resolutions, integral and
\* not, with spans that are and are not multiples of the resolution.
RangeConfigs ==
    {DomainInit("d", low, high, res) :
        low \in {Zero, Rat(1, 2)}, high \in {One, Rat(2, 1), Rat(3, 1)},
        res \in {One, Rat(2, 1), Rat(1, 2), Rat(3, 2)}}

InitRange ==
    /\ doms \in [DomIds -> {c \in RangeConfigs : DomainInitOk(c.name, c.low, c.high, c.res)}]
    /\ sets = [s \in SetIds |-> NoSet]
    /\ rules = <<>>
    /\ computed = [s \in SetIds |-> [array |-> 0, cog |-> 0]]
    /\ last = Result("init", "ok")

NextRange == \E d \in DomIds : DomainRange(d)

SpecRange == InitRange /\ [][NextRange]_vars

\* Rule construction: the Rule objects, arguments and dict items of a run.
MaxBuiltRules == 2

MaxArgs == 2

MaxItems == 1

BuildFuncs == {constant(One)}

NextBuild ==
    \/ SetNew(MaxRegSets, BuildFuncs, {""})
    \/ RuleConstruct(MaxBuiltRules, MaxArgs, MaxItems)

SpecBuild == InitObjects /\ [][NextBuild]_vars

\* Rule unions: the Rule objects of a run, the arguments an operand is built
\* from, and the length of the lists summed.
MaxUnionRules == 3

MaxUnionArgs == 1

MaxSummands == 2

NextUnion ==
    \/ SetNew(MaxRegSets, BuildFuncs, {""})
    \/ RuleConstruct(MaxBuiltRules, MaxUnionArgs, MaxItems)
    \/ RuleUnion(MaxUnionRules)
    \/ RuleSum(MaxUnionRules, MaxSummands)

SpecUnion == InitObjects /\ [][NextUnion]_vars

\* Crisp inputs for every Domain.
TotalValueDicts == [DomIds -> CrispValues]

\* Crisp inputs that differ in the first Domains only.
MaximaValueDicts == {values \in TotalValueDicts : values[NumDomains] = One}

NextMaxima ==
    \/ SetNew(MaxRegSets, RuleFuncs, {""})
    \/ RuleNew
    \/ RuleCall(MaximaValueDicts, {"mom", "som", "lom"})

SpecMaxima == InitObjects /\ [][NextMaxima]_vars

\* The functions bisector is exercised with: one of them is 0 at every sample
\* point.
BisectorFuncs == RuleFuncs \cup {constant(Zero)}

NextBisector ==
    \/ SetNew(MaxRegSets, BisectorFuncs, {""})
    \/ RuleNew
    \/ RuleCall(TotalValueDicts, {"bisector"})

SpecBisector == InitObjects /\ [][NextBisector]_vars

\* Singleton positions on the sample points of both Domains and between them.
SingletonPositions == {Rat(1, 2), One}

NextSingleton ==
    \/ SingletonSetNew(MaxRegSets, SingletonPositions)
    \/ \E s \in SetIds : SetArray(s)
    \/ \E s \in SetIds : SetCenterOfGravity(s)

SpecSingleton == InitObjects /\ [][NextSingleton]_vars

\* tests/test_caro.py: three Domains, three Sets registered in each, nine
\* single-condition Rules and their union.  The test samples every Domain at
\* the resolution 0.0001; here Temperatur has 14 sample points, tandelta 14
\* and Gefahrenbewertung 5, 9 or 21 (the resolutions of CaroResolutions),
\* each grid holding the corners of the functions sampled on it.
Temperatur == DomainInit("Temperatur", Rat(-30, 1), Rat(100, 1), Rat(10, 1))

tandelta == DomainInit("tandelta", Zero, Rat(13, 10), Rat(1, 10))

Gefahrenbewertung(res) == DomainInit("Gefahrenbewertung", Rat(-1, 2), Rat(3, 2), res)

\* A Set as `domain.name = func` leaves it: bound, named, its array sampled.
Registered(func, name, d, dom) ==
    [SetInit(func, name, d) EXCEPT !.cached_array = Sample(func, dom)]

\* ~a & ~b on the functions of Sets a and b.
NeitherNor(f, g) == Combine("and", inv(f), inv(g))

\* The functions of temp.kalt, temp.heiß, temp.mittel, tan.klein, tan.groß,
\* tan.mittel, gef.klein, gef.groß, gef.mittel, in this order Sets 1..9.
CaroFuncs ==
    <<S(Rat(-10, 1), Rat(30, 1)),
      R(Rat(30, 1), Rat(70, 1)),
      NeitherNor(R(Rat(30, 1), Rat(70, 1)), S(Rat(-10, 1), Rat(30, 1))),
      S(Rat(1, 10), Rat(1, 2)),
      R(Rat(1, 2), Rat(9, 10)),
      NeitherNor(R(Rat(1, 2), Rat(9, 10)), S(Rat(1, 10), Rat(1, 2))),
      trapezoid(Rat(-1, 2), Zero, Zero, Rat(1, 2), One, Zero),
      trapezoid(Rat(1, 2), One, One, Rat(3, 2), One, Zero),
      trapezoid(Zero, Rat(1, 2), Rat(1, 2), One, One, Zero)>>

CaroNames ==
    <<"kalt", "heiß", "mittel", "klein", "groß", "mittel", "klein", "groß", "mittel">>

\* Set s belongs to Domain (s + 2) \div 3: 1 Temperatur, 2 tandelta,
\* 3 Gefahrenbewertung.
CaroSets(res) ==
    [s \in 1..9 |->
        Registered(CaroFuncs[s], CaroNames[s], (s + 2) \div 3,
                   <<Temperatur, tandelta, Gefahrenbewertung(res)>>[(s + 2) \div 3])]

CaroDomains(res) ==
    <<[Temperatur EXCEPT !.sets = ("kalt" :> 1 @@ "heiß" :> 2 @@ "mittel" :> 3)],
      [tandelta EXCEPT !.sets = ("klein" :> 4 @@ "groß" :> 5 @@ "mittel" :> 6)],
      [Gefahrenbewertung(res) EXCEPT !.sets = ("klein" :> 7 @@ "groß" :> 8 @@ "mittel" :> 9)]>>

\* R1..R9: Rule({(temp.x, tan.y): gef.z}), as <<temp.x, tan.y, gef.z>>.
CaroTable ==
    <<<<1, 4, 7>>, <<3, 4, 7>>, <<2, 4, 7>>,
      <<1, 6, 7>>, <<3, 6, 9>>, <<2, 6, 8>>,
      <<1, 5, 9>>, <<3, 5, 8>>, <<2, 5, 8>>>>

CaroRule(k) ==
    RuleInit(<<>>, << << <<CaroTable[k][1], CaroTable[k][2]>>, CaroTable[k][3]>> >>)

\* R1 | R2 | ... | Rk
RECURSIVE CaroUnion(_)
CaroUnion(k) ==
    IF k = 1 THEN CaroRule(1) ELSE Rule__add__(CaroUnion(k - 1), CaroRule(k))

\* Rules 1..9 are R1..R9, Rule 10 is `rules`.
CaroRules ==
    [k \in 1..10 |-> [conditions |-> IF k = 10 THEN CaroUnion(9) ELSE CaroRule(k)]]

CaroResolutions == {Rat(1, 2), Rat(1, 4), Rat(1, 10)}

InitCaro ==
    /\ \E res \in CaroResolutions :
          /\ doms = CaroDomains(res)
          /\ sets = CaroSets(res)
    /\ rules = CaroRules
    /\ computed = [s \in 1..9 |-> [array |-> 1, cog |-> 0]]
    /\ last = Result("init", "ok")

\* {temp: t, tan: d}
CaroValueDicts ==
    {<<t, d>> : t \in {Rat(20, 1), Rat(50, 1)}, d \in {Rat(11, 20), Rat(1, 5)}}

NextCaro == RuleCall(CaroValueDicts, {"cog"})

SpecCaro == InitCaro /\ [][NextCaro]_vars

\* Two Domains over [1, 3], whose range 1, 2, 3 ends at the upper bound.
InitCrisp ==
    /\ doms = <<DomainInit("d", One, Rat(3, 1), One), DomainInit("e", One, Rat(3, 1), One)>>
    /\ sets = [s \in SetIds |-> NoSet]
    /\ rules = <<>>
    /\ computed = [s \in SetIds |-> [array |-> 0, cog |-> 0]]
    /\ last = Result("init", "ok")

\* Memberships in [0, 1]: one that is 0 everywhere and a rising slope.
CrispFuncs == {constant(Zero), R(One, Rat(3, 1))}

CrispValueDicts == [DomIds -> {Rat(3, 1)}]

NextCrisp ==
    \/ SetNew(MaxRegSets, CrispFuncs, {""})
    \/ RuleNew
    \/ RuleCall(CrispValueDicts, Methods)

SpecCrisp == InitCrisp /\ [][NextCrisp]_vars

\* Constructor arguments, accepted and rejected ones.
NewConfigs ==
    [name : {"e", "1x"}, low : {Zero, One}, high : {One}, res : {Zero, One}]

\* The function of Set(R(1, 2)) ** -1: below 1 R(1, 2) returns the int 0, and
\* pow(0, -1) raises ZeroDivisionError.
FailingFuncs == {pow(R(One, Rat(2, 1)), -1)}

NextAtomic ==
    \/ SetNew(MaxEvalSets, RegFuncs \cup FailingFuncs, {""})
    \/ DomainNew(NumDomains + 1, NewConfigs)
    \/ \E d \in DOMAIN doms : DomainSetattr(d, {"a", "1x"})
    \/ \E d \in DOMAIN doms : DomainSetattrFunc(d, MaxRegSets, FailingFuncs, {"b"})

SpecAtomic == InitObjects /\ [][NextAtomic]_vars

\* ------------------------------------------------- registration properties
\* C3, as stated: after any sequence of registrations and deletions every
\* Set stored in a Domain's registry has its domain field referring to that
\* same Domain.
C3_RegistryRefersBack ==
    \A d \in DomIds :
        \A n \in DOMAIN doms[d].sets : sets[doms[d].sets[n]].domain = d

\* C4, as stated: once a Set's domain and name are bound, no later operation
\* changes them; registering the Set again under another name or in another
\* Domain alters neither.
C4_BindingPermanent ==
    [][\A s \in SetIds :
          (sets[s].alive /\ sets[s].domain # 0 /\ sets[s].name # "")
             => (sets'[s].domain = sets[s].domain /\ sets'[s].name = sets[s].name)]_vars

\* C5, as stated: for every Set with a bound domain, array() returns func(x)
\* for x over the range() of the Set's current domain, one value per sample
\* point, in order.
C5_ArrayIsSampleOfDomain ==
    \A s \in Alive :
        sets[s].domain # 0 =>
            /\ Len(ArrayOf(sets, doms, s)) = Len(range(doms[sets[s].domain]))
            /\ \A i \in 1..Len(ArrayOf(sets, doms, s)) :
                  ArrayOf(sets, doms, s)[i]
                      = Call(sets[s].func, range(doms[sets[s].domain])[i])

\* C6, as stated: for any Set, whatever its membership values, the sampled
\* array is computed at most once and the center of gravity is computed at
\* most once over any sequence of array() and center_of_gravity() calls.
C6_ComputedAtMostOnce ==
    \A s \in SetIds : computed[s].array <= 1 /\ computed[s].cog <= 1

\* --------------------------------------------------- comparison properties
\* Two arrays have the same length and the same value at every index.
SameSamples(a, b) == Len(a) = Len(b) /\ \A i \in 1..Len(a) : a[i] = b[i]

\* a is <= b at every sample point.
SamplesLeq(a, b) == Len(a) = Len(b) /\ \A i \in 1..Len(a) : NLeq(a[i], b[i])

\* Two Domains have the same bounds and resolution.
SameGrid(d1, d2) ==
    /\ doms[d1].low = doms[d2].low
    /\ doms[d1].high = doms[d2].high
    /\ doms[d1].res = doms[d2].res

C9_Holds(s, t, r) ==
    IF sets[s].domain = 0 \/ sets[t].domain = 0
    THEN r.status = "raise"
    ELSE /\ r.status = "ok"
         /\ r.bool <=> SameSamples(ArrayOf(sets, doms, s), ArrayOf(sets, doms, t))
         /\ (sets[s].func = sets[t].func /\ SameGrid(sets[s].domain, sets[t].domain))
               => r.bool

\* C9, as stated: s == t on two Sets with a bound domain is true exactly when
\* their sampled arrays are equal element by element, so two Sets with the
\* same membership function over Domains with the same bounds and resolution
\* compare equal; with an operand that has no domain the comparison raises.
C9_EqualityBySamples ==
    \A s, t \in Alive : C9_Holds(s, t, Set__eq__(sets, computed, doms, s, t))

ProperSubset(a, b) == SamplesLeq(a, b) /\ ~SameSamples(a, b)

C10_Holds(a, b, lt, gt, le, eq) ==
    /\ lt.status = "ok" /\ (lt.bool <=> ProperSubset(a, b))
    /\ gt.status = "ok" /\ (gt.bool <=> ProperSubset(b, a))
    /\ (le.status = "ok" /\ le.bool /\ eq.status = "ok" /\ ~eq.bool) => lt.bool

\* C10, as stated: for s and t bound to the same Domain, s < t holds exactly
\* when s is a proper subset of t (s's array <= t's at every sample point and
\* the arrays not equal), s > t exactly when t is a proper subset of s, hence
\* s <= t together with s != t implies s < t.
C10_StrictIsProperSubset ==
    \A s, t \in Alive :
        (sets[s].domain # 0 /\ sets[s].domain = sets[t].domain) =>
            C10_Holds(ArrayOf(sets, doms, s), ArrayOf(sets, doms, t),
                      Set__lt__(sets, computed, doms, s, t),
                      Set__gt__(sets, computed, doms, s, t),
                      Set__le__(sets, computed, doms, s, t),
                      Set__eq__(sets, computed, doms, s, t))

\* ----------------------------------------------------- operator properties
\* s and t are bound to two different Domain objects.
TwoDomains(s, t) ==
    /\ sets[s].domain # 0
    /\ sets[t].domain # 0
    /\ sets[s].domain # sets[t].domain

\* C7, as stated: each binary operator applied to two Sets bound to two
\* different Domain objects fails and produces no derived Set.
C7_DifferentObjectsRejected ==
    [][(last'.op \in BinaryOps /\ TwoDomains(last'.args[1], last'.args[2])) =>
          (last'.status = "raise" /\ sets' = sets)]_vars

\* What a Domain holds: its name, bounds and resolution, and for each
\* registered name the sampled array of the Set registered under it.
DomainData(d) ==
    <<doms[d].name, doms[d].low, doms[d].high, doms[d].res,
      [n \in DOMAIN doms[d].sets |-> ArrayOf(sets, doms, doms[d].sets[n])]>>

\* n is a new Set bound to Domain d and every other Set is as it was.
NewSetIn(n, d) ==
    /\ ~sets[n].alive
    /\ sets'[n].alive
    /\ sets'[n].domain = d
    /\ \A m \in SetIds \ {n} : sets'[m] = sets[m]

\* C7, amended: a binary operator on two Sets bound to two Domain objects
\* fails, producing no derived Set, exactly when the two Domains differ in
\* name, bounds, resolution or registered Sets; on two Domain objects that
\* agree in all of these it returns a derived Set bound to the left
\* operand's Domain.
C7_DifferentDataRejected ==
    [][(last'.op \in BinaryOps /\ TwoDomains(last'.args[1], last'.args[2])) =>
          IF DomainData(sets[last'.args[1]].domain) = DomainData(sets[last'.args[2]].domain)
          THEN /\ last'.status = "ok"
               /\ \E n \in SetIds : NewSetIn(n, sets[last'.args[1]].domain)
          ELSE /\ last'.status = "raise"
               /\ sets' = sets]_vars

\* A binary operator has just returned a Set for operands bound to two
\* different Domain objects.
C7_Witness ==
    /\ last.op \in BinaryOps
    /\ last.status = "ok"
    /\ TwoDomains(last.args[1], last.args[2])
    /\ doms[sets[last.args[1]].domain].sets # <<>>

Operators == UnaryOps \cup BinaryOps \cup {"pow"}

\* The operands of the call are all bound to one Domain object.
BoundToOneDomain(args) ==
    /\ sets[args[1]].domain # 0
    /\ \A i \in 1..Len(args) : sets[args[i]].domain = sets[args[1]].domain

\* n is a new Set bound to Domain d, unnamed and in no registry, and every
\* other Set is as it was.
DerivedStep(n, d) ==
    /\ ~sets[n].alive
    /\ sets'[n].alive
    /\ sets'[n].domain = d
    /\ sets'[n].name = ""
    /\ \A e \in DomIds : \A a \in DOMAIN doms'[e].sets : doms'[e].sets[a] # n
    /\ \A m \in SetIds \ {n} : sets'[m] = sets[m]

\* C8: each Set operator applied to Sets bound to a Domain D returns a new
\* Set whose domain is D and whose name is unset, which is in no registry;
\* the operands and every Domain's registry are unchanged.
C8_DerivedSet ==
    [][(last'.op \in Operators /\ BoundToOneDomain(last'.args)) =>
          /\ last'.status = "ok"
          /\ \E n \in SetIds : DerivedStep(n, sets[last'.args[1]].domain)
          /\ doms' = doms]_vars

\* An operator has just returned a derived Set for operands of one Domain
\* that holds a registered Set.
C8_Witness ==
    /\ last.op \in BinaryOps
    /\ last.status = "ok"
    /\ BoundToOneDomain(last.args)
    /\ last.args[1] # last.args[2]
    /\ doms[sets[last.args[1]].domain].sets # <<>>

\* --------------------------------------------------------- rule properties
\* The last call was rule(values) and it returned.
RuleReturned == last.op = "Rule.__call__" /\ last.status = "ok"

LastConditions == rules[last.args[1]].conditions

LastValues == last.args[2]

\* The membership of antecedent s at the crisp value given for its own Domain.
Membership(s, values) == Call(sets[s].func, values[sets[s].domain])

\* w is the minimum of the antecedents' memberships, 0 when there are none.
IsMinimum(w, if_sets, values) ==
    IF if_sets = {} THEN w = Zero
    ELSE /\ \E s \in if_sets : w = Membership(s, values)
         /\ \A s \in if_sets : NLeq(w, Membership(s, values))

\* The conditions whose minimum membership is above 0.
Firing(conditions, values) ==
    {i \in 1..Len(conditions) :
        /\ conditions[i][1] # {}
        /\ \A s \in conditions[i][1] : NLess(Zero, Membership(s, values))}

\* The k-th index of F in increasing order.
Nth(F, k) == CHOOSE i \in F : Cardinality({j \in F : j < i}) = k - 1

C1_Holds(conditions, values, F, target_weights, val) ==
    /\ \A i \in 1..Len(conditions) :
          IsMinimum(firing_strength(sets, conditions[i][1], values),
                    conditions[i][1], values)
    /\ Len(target_weights) = Cardinality(F)
    /\ \A k \in 1..Len(target_weights) :
          /\ target_weights[k][1] = conditions[Nth(F, k)][2]
          /\ IsMinimum(target_weights[k][2], conditions[Nth(F, k)][1], values)
    /\ (val = <<>>) <=> (F = {})

\* C1: in a Rule evaluation the firing strength of each condition is the
\* minimum of its antecedents' memberships at the crisp values of their own
\* Domains (0 for no antecedents), exactly the conditions with firing
\* strength > 0 contribute, and the result is None exactly when none does.
C1_FiringStrength ==
    RuleReturned =>
        C1_Holds(LastConditions, LastValues, Firing(LastConditions, LastValues),
                 TargetWeights(sets, LastConditions, LastValues), last.val)

\* A rule returned a crisp value while one condition fired on two
\* antecedents of different membership and another did not fire.
C1_Witness ==
    /\ RuleReturned
    /\ last.val # <<>>
    /\ \E i \in Firing(LastConditions, LastValues) :
          \E s, t \in LastConditions[i][1] :
             NLess(Membership(s, LastValues), Membership(t, LastValues))
    /\ \E i \in 1..Len(LastConditions) : i \notin Firing(LastConditions, LastValues)

\* The minimum membership of a condition with antecedents.
MinMembership(cond, values) ==
    CHOOSE w \in {Membership(s, values) : s \in cond[1]} :
        \A s \in cond[1] : NLeq(w, Membership(s, values))

\* sum(w_i * cog_i) and sum(w_i) over the firing conditions F, one term per
\* condition.
WeightedCogs(conditions, values, F) ==
    NSum([i \in 1..Len(conditions) |->
            IF i \in F
            THEN NMul(MinMembership(conditions[i], values),
                      CogCall(sets, computed, doms, conditions[i][2]).val)
            ELSE Zero])

Weights(conditions, values, F) ==
    NSum([i \in 1..Len(conditions) |->
            IF i \in F THEN MinMembership(conditions[i], values) ELSE Zero])

C2_Holds(conditions, values, F, val) ==
    F # {} => val = <<NDiv(WeightedCogs(conditions, values, F),
                           Weights(conditions, values, F))>>

\* C2: with the cog method a Rule evaluation in which at least one
\* condition fires returns sum(w_i * cog_i) / sum(w_i) over the firing
\* conditions, w_i the firing strength and cog_i the consequent's
\* center_of_gravity(), a shared consequent counted once per condition.
C2_WeightedAverage ==
    RuleReturned =>
        C2_Holds(LastConditions, LastValues, Firing(LastConditions, LastValues),
                 last.val)

\* A rule returned a crisp value with two conditions of different firing
\* strength firing on one shared consequent.
C2_Witness ==
    /\ RuleReturned
    /\ last.val # <<>>
    /\ Firing(LastConditions, LastValues) = {1, 2}
    /\ LastConditions[1][2] = LastConditions[2][2]
    /\ MinMembership(LastConditions[1], LastValues)
          # MinMembership(LastConditions[2], LastValues)

\* ------------------------------------------------------ calling a Domain
InBounds(d, x) == NLeq(doms[d].low, x) /\ NLeq(x, doms[d].high)

\* The mapping a Domain call is to return: one entry per registered Set,
\* its membership func(x).
IsMembershipMapping(val, d, x) ==
    /\ DOMAIN val = {doms[d].sets[n] : n \in DOMAIN doms[d].sets}
    /\ \A s \in DOMAIN val : val[s] = Call(sets[s].func, x)

\* C11: a Domain called with x in [low, high] returns a mapping with one
\* entry for every registered Set, that Set's func(x); called with x outside
\* [low, high] it raises, returns no mapping, and leaves the registry and
\* all Sets unchanged.
C11_DomainCall ==
    [][last'.op = "Domain.__call__" =>
          IF InBounds(last'.args[1], last'.args[2])
          THEN /\ last'.status = "ok"
               /\ IsMembershipMapping(last'.val, last'.args[1], last'.args[2])
          ELSE /\ last'.status = "raise"
               /\ last'.val = <<>>
               /\ UNCHANGED <<doms, sets>>]_vars

\* A Domain with two Sets registered was called inside its bounds and
\* returned two different memberships.
C11_Witness ==
    /\ last.op = "Domain.__call__"
    /\ Cardinality({doms[last.args[1]].sets[n] : n \in DOMAIN doms[last.args[1]].sets}) = 2
    /\ last.status = "ok"
    /\ \E s, t \in DOMAIN last.val : last.val[s] # last.val[t]

\* --------------------------------------------------------- calling a Set
\* Set s is bound to a Domain and x lies outside that Domain's [low, high].
OutOfBounds(s, x) == sets[s].domain # 0 /\ ~InBounds(sets[s].domain, x)

\* Some antecedent of the Rule is bound to a Domain whose crisp input lies
\* outside that Domain's bounds.
AntecedentOutOfBounds(conditions, values) ==
    \E i \in 1..Len(conditions) : \E s \in conditions[i][1] :
        /\ sets[s].domain \in DOMAIN values
        /\ OutOfBounds(s, values[sets[s].domain])

\* C12, as stated: evaluating a Set bound to a Domain at x outside the
\* Domain's [low, high] raises instead of returning a membership value, also
\* when the Set is evaluated as an antecedent during Rule evaluation.
C12_OutOfRangeRaises ==
    [][/\ (last'.op = "Set.__call__" /\ OutOfBounds(last'.args[1], last'.args[2]))
            => last'.status = "raise"
       /\ (/\ last'.op = "Rule.__call__"
           /\ AntecedentOutOfBounds(rules[last'.args[1]].conditions, last'.args[2]))
            => last'.status = "raise"]_vars

\* ------------------------------------------------------------ Domain.range
\* floor((high - low) / res) + 1
PointCount(d) == NInt(NDiv(NSub(d.high, d.low), d.res)) + 1

\* C13, as stated: for every Domain with low < high and res > 0, range is a
\* strictly increasing sequence of exactly floor((high - low) / res) + 1
\* sample points, the first low and the last high, so no sample point lies
\* outside [low, high].
C13_RangeSpansBounds ==
    last.op = "range" =>
        /\ Len(last.val) = PointCount(doms[last.args[1]])
        /\ \A i \in 1..(Len(last.val) - 1) : NLess(last.val[i], last.val[i + 1])
        /\ NEq(last.val[1], doms[last.args[1]].low)
        /\ NEq(last.val[Len(last.val)], doms[last.args[1]].high)
        /\ \A i \in 1..Len(last.val) : InBounds(last.args[1], last.val[i])

\* -------------------------------------------------------- Rule construction
\* The Set objects of a dict key, however it was written.
KeySets(if_sets) ==
    IF if_sets[1] = "Set" THEN {if_sets[2]} ELSE {if_sets[2][i] : i \in DOMAIN if_sets[2]}

\* The entries of one argument, in order, as <<set of antecedents, consequent>>.
ArgEntries(rr, arg) ==
    IF arg[1] = "Rule" THEN rr[arg[2]].conditions
    ELSE [i \in 1..Len(arg[2]) |-> <<KeySets(arg[2][i][1]), arg[2][i][2]>>]

RECURSIVE Entries(_, _)
Entries(rr, args) ==
    IF args = <<>> THEN <<>> ELSE ArgEntries(rr, args[1]) \o Entries(rr, Tail(args))

\* conditions holds exactly the combinations of the entries, each once,
\* with the consequent of the last entry that has the combination.
LastEntryWins(conditions, entries) ==
    /\ {conditions[i][1] : i \in 1..Len(conditions)} = {entries[j][1] : j \in 1..Len(entries)}
    /\ \A i, k \in 1..Len(conditions) : conditions[i][1] = conditions[k][1] => i = k
    /\ \A i \in 1..Len(conditions) : \E j \in 1..Len(entries) :
          /\ entries[j] = conditions[i]
          /\ \A l \in (j + 1)..Len(entries) : entries[l][1] # conditions[i][1]

\* C14: a Rule built from a sequence of Rule and dict arguments holds, for
\* each antecedent combination, the consequent of the last argument entry
\* with that combination; entries collide exactly when their antecedent
\* collections hold the same Set objects, whatever the order or repetition,
\* a single Set as key being the one-element combination.
C14_LastEntryWins ==
    last.op = "Rule.__init__" =>
        LastEntryWins(rules[last.val[1]].conditions, Entries(rules, last.args[1]))

\* A Rule was built from a Rule and a dict that overrides one of its
\* combinations, written in another order, and adds none.
C14_Witness ==
    /\ last.op = "Rule.__init__"
    /\ Len(last.args[1]) = 2
    /\ last.args[1][1][1] = "Rule"
    /\ last.args[1][2][1] = "dict"
    /\ Len(last.args[1][2][2]) = 1
    /\ Len(rules[last.args[1][1][2]].conditions) = 2
    /\ \E i \in 1..2 :
          /\ rules[last.args[1][1][2]].conditions[i][1] = KeySets(last.args[1][2][2][1][1])
          /\ Cardinality(KeySets(last.args[1][2][2][1][1])) = 2
          /\ rules[last.args[1][1][2]].conditions[i][2] # last.args[1][2][2][1][2]
          /\ rules[last.val[1]].conditions[i][2] = last.args[1][2][2][1][2]
    /\ Len(rules[last.val[1]].conditions) = 2

\* -------------------------------------------------------------- Rule unions
\* The operands of the union just made: a and b, or the list summed.
Operands(l) == IF l.op = "sum" THEN l.args[1] ELSE l.args

AsRules(operands) == [i \in 1..Len(operands) |-> <<"Rule", operands[i]>>]

IsUnion(l) == l.op \in {"Rule.__add__", "Rule.__or__"} \/ (l.op = "sum" /\ l.args[1] # <<>>)

\* The Rule returned holds the operands' conditions, later operands
\* overriding earlier ones, and every operand is as it was.
UnionOfOperands ==
    /\ last'.val # <<>>
    /\ LastEntryWins(rules'[last'.val[1]].conditions,
                     Entries(rules, AsRules(Operands(last'))))
    /\ \A i \in 1..Len(Operands(last')) :
          rules'[Operands(last')[i]] = rules[Operands(last')[i]]

\* The Rule returned is an object that did not exist before.
NewObject == last'.val[1] \notin 1..Len(rules)

\* C15, as stated: a + b, a | b and sum over a list of Rules each return a
\* Rule holding the operands' conditions, later operands overriding earlier
\* ones on equal antecedent combinations; the result is a new object
\* distinct from every operand, and every operand's conditions are unchanged.
C15_UnionIsNewRule ==
    [][IsUnion(last') => UnionOfOperands /\ NewObject]_vars

\* C15, amended: the same, except that sum over a list of a single Rule
\* returns that Rule object itself.
C15_UnionIsNewRuleUnlessSingle ==
    [][IsUnion(last') =>
          /\ UnionOfOperands
          /\ IF last'.op = "sum" /\ Len(last'.args[1]) = 1
             THEN last'.val[1] = last'.args[1][1] /\ rules' = rules
             ELSE NewObject]_vars

\* Two different Rules with a common antecedent combination and different
\* consequents for it were added, and the sum has the right operand's.
C15_Witness ==
    /\ last.op = "Rule.__add__"
    /\ last.args[1] # last.args[2]
    /\ last.val[1] = 3
    /\ \E i \in 1..Len(rules[last.args[1]].conditions) :
          \E j \in 1..Len(rules[last.args[2]].conditions) :
             /\ rules[last.args[1]].conditions[i][1] = rules[last.args[2]].conditions[j][1]
             /\ rules[last.args[1]].conditions[i][2] # rules[last.args[2]].conditions[j][2]
             /\ rules[3].conditions = <<rules[last.args[2]].conditions[j]>>

\* ------------------------------------------------------- the target Domain
\* Some consequent is unbound, or bound to a Domain object other than the
\* first consequent's.
SeveralTargetObjects(conditions) ==
    \E i \in 1..Len(conditions) :
        \/ sets[conditions[i][2]].domain = 0
        \/ sets[conditions[i][2]].domain # sets[conditions[1][2]].domain

\* Some consequent is unbound, or bound to a Domain that differs from the
\* first consequent's in name, bounds, resolution or registered Sets.
SeveralTargetData(conditions) ==
    \E i \in 1..Len(conditions) :
        \/ sets[conditions[i][2]].domain = 0
        \/ sets[conditions[1][2]].domain = 0
        \/ DomainData(sets[conditions[i][2]].domain) # DomainData(sets[conditions[1][2]].domain)

\* Some antecedent is unbound or its Domain has no crisp value.
AntecedentWithoutValue(conditions, values) ==
    \E i \in 1..Len(conditions) : \E s \in conditions[i][1] :
        sets[s].domain = 0 \/ sets[s].domain \notin DOMAIN values

\* C16, as stated: evaluating a Rule whose consequents are bound to more
\* than one Domain fails, whatever the values and whichever conditions fire;
\* a crisp or absent result is returned only when all consequents share one
\* target Domain.
C16_SeveralTargetsFail ==
    RuleReturned => ~SeveralTargetObjects(LastConditions)

\* C16, amended: the evaluation fails when some consequent's Domain differs
\* from the first consequent's in name, bounds, resolution or registered
\* Sets (or a consequent is unbound); consequents bound to distinct Domain
\* objects that agree in all of these are taken to share the target Domain,
\* and the evaluation then fails only for want of values, conditions or
\* bound antecedents.
C16_DifferentTargetsFail ==
    last.op = "Rule.__call__" =>
        (last.status = "raise" <=>
            \/ DOMAIN LastValues = {}
            \/ LastConditions = <<>>
            \/ SeveralTargetData(LastConditions)
            \/ AntecedentWithoutValue(LastConditions, LastValues))

\* A Rule with consequents bound to two Domain objects of equal data
\* returned a crisp value.
C16_Witness ==
    /\ RuleReturned
    /\ last.val # <<>>
    /\ SeveralTargetObjects(LastConditions)
    /\ ~SeveralTargetData(LastConditions)

\* --------------------------------------------------------- maxima methods
LastMethod == last.args[3]

\* The sample points of the target Domain, the first consequent's.
TargetPoints(conditions) == range(doms[sets[conditions[1][2]].domain])

\* min(firing strength, consequent(x)) for one condition.
Clipped(cond, values, x) ==
    IF NLeq(MinMembership(cond, values), Call(sets[cond[2]].func, x))
    THEN MinMembership(cond, values)
    ELSE Call(sets[cond[2]].func, x)

\* y is the maximum over the firing conditions F of their clipped
\* consequents at x.
IsAggregatedAt(y, conditions, values, F, x) ==
    /\ \E i \in F : y = Clipped(conditions[i], values, x)
    /\ \A i \in F : NLeq(Clipped(conditions[i], values, x), y)

AggregatedOver(conditions, values, F, points) ==
    [k \in 1..Len(points) |->
        CHOOSE y \in {Clipped(conditions[i], values, points[k]) : i \in F} :
            IsAggregatedAt(y, conditions, values, F, points[k])]

\* The indexes of the points whose value is within 1e-6 of the largest.
Maxima(ys) ==
    {k \in 1..Len(ys) :
        \E m \in 1..Len(ys) :
            /\ \A j \in 1..Len(ys) : NLeq(ys[j], ys[m])
            /\ NLess(NSub(ys[m], ys[k]), Rat(1, 1000000))}

MeanOver(points, K) ==
    NDiv(NSum([k \in 1..Len(points) |-> IF k \in K THEN points[k] ELSE Zero]),
         Rat(Cardinality(K), 1))

C17_Holds(method, val, points, K) ==
    /\ K # {}
    /\ method = "mom" => val = <<MeanOver(points, K)>>
    /\ method = "som" =>
          \E k \in K : val = <<points[k]>> /\ \A j \in K : NLeq(points[k], points[j])
    /\ method = "lom" =>
          \E k \in K : val = <<points[k]>> /\ \A j \in K : NLeq(points[j], points[k])

\* C17: with method mom, som or lom a Rule evaluation takes as aggregated
\* value at each sample point x of the target Domain's range the maximum
\* over the firing conditions of min(firing strength, consequent(x)), and
\* returns the mean, the smallest and the largest, respectively, of the
\* sample points whose aggregated value is within 1e-6 of the maximum.
C17_MaximaMethods ==
    (RuleReturned /\ LastMethod \in {"mom", "som", "lom"}
        /\ Firing(LastConditions, LastValues) # {}) =>
        C17_Holds(LastMethod, last.val, TargetPoints(LastConditions),
                  Maxima(AggregatedOver(LastConditions, LastValues,
                                        Firing(LastConditions, LastValues),
                                        TargetPoints(LastConditions))))

\* mom returned a value for an aggregation of two conditions that fire with
\* different strengths on different consequents, whose maxima are some but
\* not all of the three sample points.
C17_Witness ==
    /\ RuleReturned
    /\ LastMethod = "mom"
    /\ last.val # <<>>
    /\ Firing(LastConditions, LastValues) = {1, 2}
    /\ MinMembership(LastConditions[1], LastValues)
          # MinMembership(LastConditions[2], LastValues)
    /\ sets[LastConditions[1][2]].func # sets[LastConditions[2][2]].func
    /\ Len(TargetPoints(LastConditions)) = 3
    /\ Cardinality(Maxima(AggregatedOver(LastConditions, LastValues, {1, 2},
                                         TargetPoints(LastConditions)))) < 3

\* ------------------------------------------------------------------ bisector
\* The area accumulated over the first k points: sum of ys[j] * h, j <= k.
AreaUpTo(ys, h, k) == NSum([j \in 1..k |-> NMul(ys[j], h)])

\* The spacing of n points over the target Domain's bounds.
Spacing(d, n) ==
    IF n > 1 THEN NDiv(NSub(doms[d].high, doms[d].low), Rat(n - 1, 1))
    ELSE NSub(doms[d].high, doms[d].low)

Half(a) == NDiv(a, Rat(2, 1))

\* The areas accumulated up to each point.
Areas(ys, h) == [k \in 1..Len(ys) |-> AreaUpTo(ys, h, k)]

\* Point k is the first at which the accumulated area is at least half the
\* total.
FirstAtHalf(areas, k) ==
    /\ NLeq(Half(areas[Len(areas)]), areas[k])
    /\ \A j \in 1..(k - 1) : NLess(areas[j], Half(areas[Len(areas)]))

\* The area accumulated strictly before point k is less than half the total.
LessThanHalfBefore(areas, k) ==
    NLess(IF k = 1 THEN Zero ELSE areas[k - 1], Half(areas[Len(areas)]))

C18_Holds(val, points, areas) ==
    \E k \in 1..Len(points) :
        /\ val = <<points[k]>>
        /\ FirstAtHalf(areas, k)
        /\ LessThanHalfBefore(areas, k)

C18_HoldsForArea(val, points, areas) ==
    \E k \in 1..Len(points) :
        /\ val = <<points[k]>>
        /\ FirstAtHalf(areas, k)
        /\ IF NEq(areas[Len(areas)], Zero) THEN k = 1
           ELSE LessThanHalfBefore(areas, k)

BisectorReturned ==
    RuleReturned /\ LastMethod = "bisector" /\ Firing(LastConditions, LastValues) # {}

LastAggregated ==
    AggregatedOver(LastConditions, LastValues, Firing(LastConditions, LastValues),
                   TargetPoints(LastConditions))

LastSpacing ==
    Spacing(sets[LastConditions[1][2]].domain, Len(TargetPoints(LastConditions)))

\* C18, as stated: bisector returns the first sample point x, scanning the
\* points in increasing order, at which the accumulated area (membership *
\* step summed over the points up to and including x) is at least half of
\* the total area, so the area accumulated strictly before the returned
\* point is less than half the total.
C18_BisectorFirstAtHalf ==
    BisectorReturned =>
        \E ys \in {LastAggregated} : \E areas \in {Areas(ys, LastSpacing)} :
            \E points \in {TargetPoints(LastConditions)} :
                C18_Holds(last.val, points, areas)

\* C18, amended: the same when the total area is positive; when the
\* aggregated membership is 0 at every sample point, the first point is
\* returned, and the area before it, 0, equals half the total.
C18_BisectorFirstAtHalfOfArea ==
    BisectorReturned =>
        \E ys \in {LastAggregated} : \E areas \in {Areas(ys, LastSpacing)} :
            \E points \in {TargetPoints(LastConditions)} :
                C18_HoldsForArea(last.val, points, areas)

\* bisector returned the second of three sample points: the area up to the
\* first was less than half of a positive total.
C18_Witness ==
    /\ BisectorReturned
    /\ Len(TargetPoints(LastConditions)) = 3
    /\ last.val = <<TargetPoints(LastConditions)[2]>>
    /\ NLess(Zero, AreaUpTo(LastAggregated, LastSpacing, 1))

\* ------------------------------------------------- the frame of evaluation
\* What a Set is apart from its caches.
SetIdentity(ss) ==
    [s \in SetIds |-> <<ss[s].alive, ss[s].func, ss[s].domain, ss[s].name>>]

\* C19: a Rule evaluation, with any method and whether it returns a crisp
\* value, returns the absent result or fails, leaves the Rule's conditions,
\* every Domain's bounds and registry, and every Set's func, domain and
\* name unchanged; it may write only the array and center-of-gravity caches
\* of Sets.
C19_EvaluationFrame ==
    [][last'.op = "Rule.__call__" =>
          /\ rules' = rules
          /\ doms' = doms
          /\ SetIdentity(sets') = SetIdentity(sets)]_vars

\* A cog evaluation returned a crisp value and filled both caches of the
\* consequent.
C19_Witness ==
    /\ RuleReturned
    /\ LastMethod = "cog"
    /\ last.val # <<>>
    /\ \E s \in Alive :
          /\ sets[s].cached_array # <<>>
          /\ sets[s].center_of_gravity # <<>>
          /\ computed[s].cog = 1

\* ------------------------------------------------------------ SingletonSet
\* Set s is a SingletonSet bound to a Domain whose bounds enclose its c.
SingletonInBounds(s) ==
    /\ sets[s].alive
    /\ sets[s].func[1] = "singleton"
    /\ sets[s].domain # 0
    /\ InBounds(sets[s].domain, sets[s].func[2][1])

\* C20, as stated: for a SingletonSet(c, no_m, c_m) bound to a Domain with
\* low <= c <= high the sampled array() contains the peak value c_m, also
\* when c is not one of the sample points of the Domain's range().
C20_ArrayHoldsPeak ==
    \A s \in SetIds :
        (SingletonInBounds(s) /\ sets[s].cached_array # <<>>) =>
            \E i \in 1..Len(sets[s].cached_array) :
                sets[s].cached_array[i] = sets[s].func[2][3]

\* ----------------------------------------------------------------- C21
HeightOf(ss, dd, s) == NMaxOf(Range(ArrayOf(ss, dd, s)))

\* s has a domain and the maximum of its array lies in (0, 1].
Normalizable(ss, dd, s) ==
    /\ ss[s].domain # 0
    /\ NLess(Zero, HeightOf(ss, dd, s))
    /\ NLeq(HeightOf(ss, dd, s), One)

\* s is itself the result of a normalized() call.
IsNormalized(ss, s) == ss[s].func[1] = "normalize"

\* C21: for a Set s with a domain whose array has a maximum in (0, 1],
\* s.normalized() returns a Set whose array has the maximum 1, and
\* normalizing a Set that normalized() returned yields a Set equal (==) to it.
C21_NormalizedIsIdempotent ==
    [][(last'.op = "normalized" /\ Normalizable(sets, doms, last'.args[1]))
          => /\ last'.status = "ok"
             /\ NEq(HeightOf(sets', doms', last'.val[1]), One)
             /\ IsNormalized(sets, last'.args[1])
                   => Set__eq__(sets', computed', doms', last'.val[1], last'.args[1]).bool]_vars

\* ----------------------------------------------------------------- C22
\* The call recorded in l was f(x) on the function of Set 1.
CalledAt(l) == l.args[2]

ValueAt(l) == l.val[1]

IsCall(l) == l.op = "Set.__call__"

Shapes == {"constant", "linear", "rectangular", "triangular", "trapezoid", "sigmoid"}

TriangularLow == sets[1].func[3][1][2][1]

TriangularHigh == sets[1].func[3][2][3][1][2][2]

TriangularPeak == sets[1].func[2][1]

TriangularCm == sets[1].func[3][1][2][3]

\* The no_m values f may have been built with: triangular keeps none of it.
TriangularNoM == {m \in Memberships : NLess(m, TriangularCm)}

\* C29: triangular(low, high, c, c_m, no_m) with low < c < high and
\* 0 <= no_m < c_m <= 1 returns c_m at c and no_m at every x <= low and
\* every x >= high, never more than c_m, and of two points x <= y it never
\* returns more at x than at y on [low, c] and never less on [c, high].
C29_Triangular ==
    [][(IsCall(last') /\ sets[1].func[1] = "triangular")
          => /\ NEq(CalledAt(last'), TriangularPeak)
                   => NEq(ValueAt(last'), TriangularCm)
             /\ (NLeq(CalledAt(last'), TriangularLow) \/ NLeq(TriangularHigh, CalledAt(last')))
                   => \E no_m \in TriangularNoM : NEq(ValueAt(last'), no_m)
             /\ NLeq(ValueAt(last'), TriangularCm)
             /\ (IsCall(last) /\ NLeq(CalledAt(last), CalledAt(last')))
                   => /\ (NLeq(TriangularLow, CalledAt(last))
                              /\ NLeq(CalledAt(last'), TriangularPeak))
                            => NLeq(ValueAt(last), ValueAt(last'))
                      /\ (NLeq(TriangularPeak, CalledAt(last))
                              /\ NLeq(CalledAt(last'), TriangularHigh))
                            => NLeq(ValueAt(last'), ValueAt(last))]_vars

\* ----------------------------------------------------------------- C25
\* The values v_1..v_n of the operands of the combinator f at x.
OperandValuesAt(f, x) == [i \in 1..Len(f[3]) |-> Call(f[3][i], x)]

\* min(v_i, min over j # i of (1 - v_j))
OnlyOperand(v, i) ==
    NMinOf({v[i]} \cup {NSub(One, v[j]) : j \in (1..Len(v)) \ {i}})

ExactlyOne(v) == NMaxOf({OnlyOperand(v, i) : i \in 1..Len(v)})

\* C25: for operands with the values v_1..v_n at a point,
\* simple_disjoint_sum (the Set operator ^ for two operands) returns the
\* maximum over the operands i of min(v_i, min over j # i of (1 - v_j)).
C25_SimpleDisjointSum ==
    (IsCall(last) /\ sets[1].func[1] = "simple_disjoint_sum")
       => NEq(ValueAt(last), ExactlyOne(OperandValuesAt(sets[1].func, CalledAt(last))))

\* ----------------------------------------------------------------- C26
\* C26: on two operand values x and y in [0, 1], gamma_op(0) returns the AND
\* value x * y and gamma_op(1) returns the OR value x + y - x * y.
C26_GammaBlendsAndWithOr ==
    (IsCall(last) /\ sets[1].func[1] = "gamma_op")
       => LET g == sets[1].func[2][1]
              v == OperandValuesAt(sets[1].func, CalledAt(last))
          IN  /\ NEq(g, Zero) => NEq(ValueAt(last), NMul(v[1], v[2]))
              /\ NEq(g, One)
                    => NEq(ValueAt(last), NSub(NAdd(v[1], v[2]), NMul(v[1], v[2])))

\* ----------------------------------------------------------------- C30
\* C30: on two operand values in [0, 1], product, lukasiewicz_AND,
\* einstein_product and hamacher_product return at most what MIN returns, and
\* bounded_sum, lukasiewicz_OR, einstein_sum and hamacher_sum return at least
\* what MAX returns.
C30_VariantsBoundedByMinAndMax ==
    IsCall(last)
       => LET v == OperandValuesAt(sets[1].func, CalledAt(last))
          IN  /\ sets[1].func[1] \in AndVariants => NLeq(ValueAt(last), MIN_F(v))
              /\ sets[1].func[1] \in OrVariants => NLeq(MAX_F(v), ValueAt(last))

\* ----------------------------------------------------------------- C27
\* No Set that existed before the step is bound differently after it.
BindingsKept ==
    \A s \in SetIds : sets[s].alive => sets'[s].domain = sets[s].domain

\* C27: a registration `domain.attr = value` that fails (the name is no
\* identifier, or the value's function raises while the array is sampled)
\* leaves the Domain's registry as it was and the value unbound, and a
\* Domain constructor call that fails yields no Domain.
C27_FailedCallsLeaveNoTrace ==
    [][/\ (last'.op = "setattr" /\ last'.status = "raise")
             => doms' = doms /\ BindingsKept
       /\ (last'.op = "Domain" /\ last'.status = "raise") => doms' = doms]_vars

\* ----------------------------------------------------------------- C28
\* The Domain a Rule evaluates into: the first consequent's.
TargetDomain(conditions) == doms[sets[conditions[1][2]].domain]

\* C28: a crisp value that a Rule evaluation returns, with cog, bisector,
\* mom, som or lom, lies within [low, high] of the target Domain.
C28_CrispWithinTarget ==
    (RuleReturned /\ last.val # <<>>)
       => /\ NLeq(TargetDomain(LastConditions).low, last.val[1])
          /\ NLeq(last.val[1], TargetDomain(LastConditions).high)

\* ----------------------------------------------------------------- C24
\* `rules` was evaluated at {temp: 20, tan: 0.55} with cog.
CaroEvaluated ==
    /\ last.op = "Rule.__call__"
    /\ last.args = <<10, <<Rat(20, 1), Rat(11, 20)>>, "cog">>

\* C24: on the Domains, Sets and the union of the nine Rules of
\* tests/test_caro.py, evaluating {Temperatur: 20, tandelta: 0.55} with cog
\* fires exactly four conditions, with the firing strengths 0.25, 0.75, 0.125
\* and 0.125, and returns 0.45 within 1e-4.
C24_CaroExample ==
    CaroEvaluated
       => /\ TargetWeights(sets, LastConditions, LastValues)
                = << <<7, Rat(1, 4)>>, <<9, Rat(3, 4)>>, <<9, Rat(1, 8)>>, <<8, Rat(1, 8)>> >>
          /\ Cardinality(Firing(LastConditions, LastValues)) = 4
          /\ last.status = "ok"
          /\ last.val # <<>>
          /\ NLeq(NAbs(NSub(last.val[1], Rat(45, 100))), Rat(1, 10000))

C24_Witness == CaroEvaluated /\ last.status = "ok" /\ last.val # <<>>

====
